---------------------------- MODULE Spec2Model ----------------------------
(***************************************************************************)
(* network_probe: the streaming session multiplexer (src/websocket/mod.rs) *)
(* and the Ping / TCP attempt loops with their statistics                  *)
(* (src/modules/ping.rs, src/modules/tcping.rs).                           *)
(*                                                                         *)
(* WsSpec / WsFairSpec : the sessions of one WebSocketHandler.             *)
(* ProbeSpec           : one PingService::ping or TcpingService::tcping    *)
(*                       run.                                              *)
(***************************************************************************)
EXTENDS Integers, Sequences, FiniteSets, TLC

(***************************************************************************)
(* Bounds of the model.                                                    *)
(***************************************************************************)
\* inbound text frames the peers send, all connections together
MaxFrames == 2
\* slots of the broadcast ring.  The code asks for broadcast::channel(100)
\* (websocket/mod.rs:51); the model keeps the ring's behaviour and scales
\* its size so that a receiver can fall behind within MaxFrames frames.
ChannelCapacity == 1
\* largest attempt count of a Ping / TCP run
MaxCount == 3
\* largest latency of one attempt, in milliseconds
MaxLatency == 2

\* largest max_hops of a traceroute run
MaxHops == 4
\* the ttl above which the simulated probe gets no answer.  The code has 25
\* (traceroute.rs:141); the model scales it so that MaxHops reaches past it.
SimulatedHopLimit == 2
\* longest ports argument of scan_ports
MaxPorts == 3
\* largest port number of the model
MaxPortNumber == 2

\* most pieces of a range argument (one more than its '-' characters)
MaxPieces == 3
\* u16::MAX
U16Max == 65535

\* most addresses or names in one resolver answer
MaxAnswers == 2

\* most DNS requests one session or one api client sends during a behaviour
MaxLookups == 2

\* the connections the router accepts during one behaviour
Sessions == {1, 2}

None == "none"
\* send_task holds no message
NoMsg == [owner |-> 0, seq |-> 0]
\* the run has not computed its statistics / has not returned
NoStats == [tag |-> "None"]
NoResult == [tag |-> "None"]
\* Option<String>: None
NoText == [some |-> FALSE, letters |-> "", upper |-> TRUE]

VARIABLES
  hpc,        \* handle_websocket of each connection: "idle", "select", "returned"
  recvTask,   \* recv_task: "none", "wait", "probing", "done", "cancelled"
  sendTask,   \* send_task: "none", "wait", "sending", "done", "cancelled"
  recvAbort,  \* recv_task.abort() was called and has not taken effect yet
  sendAbort,  \* send_task.abort() was called and has not taken effect yet
  chan,       \* every message handler.tx accepted, oldest first
  rxpos,      \* rx of each connection: how many messages of chan it is past
  held,       \* the message send_task took from rx and is writing to the sink
  outbox,     \* what the sink of each connection (its transport) was given
  inflight,   \* the request recv_task is awaiting handle_message for
  probe,      \* the Prober future of that request: "none", "running", "dropped"
  texts,      \* Message::Text frames receiver.next() has yielded to recv_task
  nsent,      \* handler.tx.send calls recv_task has made
  nfailed     \* those that returned Err (logged by log::error!)

wsvars == << hpc, recvTask, sendTask, recvAbort, sendAbort, chan, rxpos, held,
             outbox, inflight, probe, texts, nsent, nfailed >>

VARIABLES
  ppc,          \* position in ping / tcping; "await": an attempt is awaited
  kind,         \* "ping" or "tcp": which service runs
  count,        \* config.count
  i,            \* the loop variable of `for i in 0..config.count`
  packets_sent, \* ping: packets_sent
  received,     \* ping: packets_received; tcping: successful_attempts
  rtt_values,   \* rtt_values
  stats,        \* packet_loss, min_rtt, max_rtt, avg_rtt once computed
  result,       \* what the call returned
  failed,       \* attempts that ended Ok(Err(e)) or Err(_) (timeout)
  sleeps,       \* tokio::time::sleep calls of the loop
  lookups,      \* tokio::net::lookup_host calls
  underflow,    \* a u32 subtraction went below zero
  pending,      \* the attempts (values of i) started and not yet completed
  timeouts      \* attempts that ended Err(_) (timeout)

probevars == << ppc, kind, count, i, packets_sent, received, rtt_values, stats,
                result, failed, sleeps, lookups, underflow, pending,
                timeouts >>

VARIABLES
  tpc,        \* position in traceroute: "idle", "entry", "start", "probe",
              \* "await", "sleep", "break", "done"
  max_hops,   \* config.max_hops
  ttl,        \* the loop variable of `for ttl in 1..=config.max_hops`
  hops,       \* hops
  target,     \* the SocketAddr lookup_host gave for config.host
  target_ip,  \* target_ip
  tdelays,    \* tokio::time::sleep(config.delay) calls of the loop
  tresult,    \* what traceroute returned
  tpending    \* the hop probes (values of ttl) started and not yet completed

tracevars == << tpc, max_hops, ttl, hops, target, target_ip, tdelays, tresult,
               tpending >>

VARIABLES
  spc,        \* position in scan_ports: "idle", "loop", "done"
  ports,      \* the ports argument
  next,       \* how many elements of ports the for loop has taken
  results,    \* results
  connects,   \* the TcpStream::connect calls made: port and outcome, in call order
  sresult     \* what scan_ports returned

scanvars == << spc, ports, next, results, connects, sresult >>

VARIABLES
  cpc,        \* position in handle_port_scan: "idle", "parse", "scan", "done"
  range,      \* the range argument, as the pieces its '-' characters separate
  cresult     \* what handle_port_scan returned

clivars == << cpc, range, cresult >>

VARIABLES
  wpc,        \* position in test_website: "idle", "start", "sent", "done"
  wmethod,    \* config.method
  wurl,       \* config.url: its scheme
  wclock,     \* milliseconds since start_time
  wrequests,  \* request.send() calls
  wtransport, \* what request.send().await gave: "response" or the failure
  wresult     \* what test_website returned

webvars == << wpc, wmethod, wurl, wclock, wrequests, wtransport, wresult >>

VARIABLES
  dpc,        \* position of a DNS request: "idle", "request", "query", "inner",
              \* "done"
  dentry,     \* where the request came in: "ws", "api", "query"
  qtext,      \* the query_type of the request (Option<String>)
  qtype,      \* config.query_type
  qinner,     \* a_config.query_type of the nested query call, else "none"
  dcalls,     \* the resolver calls made, in call order
  drecords,   \* records
  dresult     \* what DnsService::query returned

dnsvars == << dpc, dentry, qtext, qtype, qinner, dcalls, drecords, dresult >>

VARIABLES
  epc,        \* position of a request / response exchange: "idle", "call", "done"
  eiface,     \* "ws" (handle_message / recv_task) or "api" (the axum handlers)
  ereq,       \* the request
  eoutcome,   \* what the Prober call of the request returns
  envelope    \* the response body

envvars == << epc, eiface, ereq, eoutcome, envelope >>

\* what the actions of one component leave alone
VARIABLES
  tentry,     \* the function a hop-discovery request entered through, or "none"
  protocol    \* its protocol argument

entryvars == << tentry, protocol >>

VARIABLES
  lpc,        \* each DNS arm / handler: "idle", "read" (awaiting
              \* dns_service.read()), "query" (guard held, query awaited)
  rguards,    \* per resolver lock: the tasks holding a read guard
  wguards,    \* per resolver lock: the task holding the write guard, if any
  nlookups    \* lookups each task has finished

lockvars == << lpc, rguards, wguards, nlookups >>

VARIABLES
  gpc,        \* config construction: "idle", "request", "built"
  giface,     \* "ws" (handle_message) or "api" (the axum handlers)
  greq,       \* the decoded request
  config      \* the config handed to the service

cfgvars == << gpc, giface, greq, config >>

restvars == << clivars, webvars, dnsvars, envvars, entryvars, lockvars,
  cfgvars >>
notws == << probevars, tracevars, scanvars, restvars >>
notprobe == << wsvars, tracevars, scanvars, restvars >>
nottrace == << wsvars, probevars, scanvars, restvars >>
notscan == << wsvars, probevars, tracevars, restvars >>
notcli == << wsvars, probevars, tracevars, webvars, dnsvars, envvars,
  entryvars, lockvars, cfgvars >>
notweb == << wsvars, probevars, tracevars, scanvars, clivars, dnsvars, envvars,
  entryvars, lockvars, cfgvars >>
notdns == << wsvars, probevars, tracevars, scanvars, clivars, webvars, envvars,
  entryvars, lockvars, cfgvars >>
notenv == << wsvars, probevars, tracevars, scanvars, clivars, webvars, dnsvars,
  entryvars, lockvars, cfgvars >>

notlock == << wsvars, probevars, tracevars, scanvars, clivars, webvars,
  dnsvars, envvars, entryvars, cfgvars >>
notcfg == << wsvars, probevars, tracevars, scanvars, clivars, webvars,
  dnsvars, envvars, entryvars, lockvars >>

vars == << wsvars, probevars, tracevars, scanvars, restvars >>


RECURSIVE SumOver(_, _)
SumOver(f, S) ==
  IF S = {} THEN 0
  ELSE LET x == CHOOSE y \in S : TRUE IN f[x] + SumOver(f, S \ {x})

\* text frames consumed so far, all connections together
TextsSeen == SumOver(texts, Sessions)

(***************************************************************************)
(* Requests and response envelopes.                                        *)
(***************************************************************************)
\* WebSocketMessage variants whose handle_message arm awaits a Prober
ProbeTypes == {"Ping", "Tcping", "Website", "Traceroute", "Dns"}
\* WebSocketMessage variants whose handle_message arm awaits nothing
AckTypes == {"Subscribe", "Unsubscribe"}
\* the request types the peers of the model send
PeerRequests == {"Ping", "Subscribe"}

\* handle_message: the WebSocketResponse for a request of type t whose
\* Prober call returned Ok (ok = TRUE) or Err (ok = FALSE)
HandleMessage(t, ok) ==
  IF t = "Subscribe"
    THEN [success |-> TRUE, data |-> "subscribed_to", error |-> "null"]
  ELSE IF t = "Unsubscribe"
    THEN [success |-> TRUE, data |-> "unsubscribed_from", error |-> "null"]
  ELSE IF ok
    THEN [success |-> TRUE, data |-> "result", error |-> "null"]
  ELSE [success |-> FALSE, data |-> "null", error |-> "probe_error"]

\* the envelope recv_task builds when serde_json::from_str fails
DecodeErrorResponse ==
  [success |-> FALSE, data |-> "null", error |-> "invalid_message_format"]

(***************************************************************************)
(* The broadcast channel handler.tx, shared by every connection of the     *)
(* handler (create_router clones the handler, Clone clones tx).            *)
(***************************************************************************)
\* the connections whose rx is alive: rx is owned by send_task's future
Receivers == {s \in Sessions : sendTask[s] \in {"wait", "sending"}}

\* rx of s has been overtaken: its next message left the ring
Lagged(s) == rxpos[s] < Len(chan) - ChannelCapacity

\* faulty variant of TxSend: a bounded queue that makes the sender wait
\* until every receiver has room
TxSendBlocksWhenFull(s, resp) ==
  LET m  == [owner |-> s, seq |-> nsent[s] + 1, success |-> resp.success,
             data |-> resp.data, error |-> resp.error]
      ok == Receivers # {}
  IN  /\ \A r \in Receivers : Len(chan) - rxpos[r] < ChannelCapacity
      /\ chan' = IF ok THEN Append(chan, m) ELSE chan
      /\ nsent' = [nsent EXCEPT ![s] = @ + 1]
      /\ nfailed' = [nfailed EXCEPT ![s] = IF ok THEN @ ELSE @ + 1]

\* faulty variant of TxSend: the value enters the ring twice
TxSendTwice(s, resp) ==
  LET m  == [owner |-> s, seq |-> nsent[s] + 1, success |-> resp.success,
             data |-> resp.data, error |-> resp.error]
      ok == Receivers # {}
  IN  /\ chan' = IF ok THEN Append(Append(chan, m), m) ELSE chan
      /\ nsent' = [nsent EXCEPT ![s] = @ + 1]
      /\ nfailed' = [nfailed EXCEPT ![s] = IF ok THEN @ ELSE @ + 1]

\* handler.tx.send(text) of recv_task s: never waits; Err when no receiver
\* is subscribed (the value is dropped), else the value enters the ring.
\* The (owner, seq) tag is the model's name of the response: the envelope
\* of the code carries no correlation id.
TxSend(s, resp) ==
  LET m  == [owner |-> s, seq |-> nsent[s] + 1, success |-> resp.success,
             data |-> resp.data, error |-> resp.error]
      ok == Receivers # {}
  IN  /\ chan' = IF ok THEN Append(chan, m) ELSE chan
      /\ nsent' = [nsent EXCEPT ![s] = @ + 1]
      /\ nfailed' = [nfailed EXCEPT ![s] = IF ok THEN @ ELSE @ + 1]

(***************************************************************************)
(* handle_websocket                                                        *)
(***************************************************************************)
\* socket.split(), handler.tx.subscribe(), both tokio::spawn
Connect(s) ==
  /\ UNCHANGED notws
  /\ hpc[s] = "idle"
  /\ hpc' = [hpc EXCEPT ![s] = "select"]
  /\ rxpos' = [rxpos EXCEPT ![s] = Len(chan)]
  /\ recvTask' = [recvTask EXCEPT ![s] = "wait"]
  /\ sendTask' = [sendTask EXCEPT ![s] = "wait"]
  /\ UNCHANGED << recvAbort, sendAbort, chan, held, outbox, inflight, probe,
                  texts, nsent, nfailed >>

(***************************************************************************)
(* recv_task                                                               *)
(***************************************************************************)
\* faulty variant of RecvProbeFrame: the next frame is read and dispatched
\* while the previous handle_message is still awaited
RecvProbeFrameWhileProbing(s, t) ==
  /\ UNCHANGED notws
  /\ recvTask[s] \in {"wait", "probing"}
  /\ TextsSeen < MaxFrames
  /\ t \in ProbeTypes
  /\ recvTask' = [recvTask EXCEPT ![s] = "probing"]
  /\ inflight' = [inflight EXCEPT ![s] = t]
  /\ probe' = [probe EXCEPT ![s] = "running"]
  /\ texts' = [texts EXCEPT ![s] = @ + 1]
  /\ UNCHANGED << hpc, sendTask, recvAbort, sendAbort, chan, rxpos, held,
                  outbox, nsent, nfailed >>

\* receiver.next() yields Text, from_str gives Ok(ws_msg) of a Prober kind:
\* handle_message(ws_msg) is awaited
RecvProbeFrame(s, t) ==
  /\ UNCHANGED notws
  /\ recvTask[s] = "wait"
  /\ TextsSeen < MaxFrames
  /\ t \in ProbeTypes
  /\ recvTask' = [recvTask EXCEPT ![s] = "probing"]
  /\ inflight' = [inflight EXCEPT ![s] = t]
  /\ probe' = [probe EXCEPT ![s] = "running"]
  /\ texts' = [texts EXCEPT ![s] = @ + 1]
  /\ UNCHANGED << hpc, sendTask, recvAbort, sendAbort, chan, rxpos, held,
                  outbox, nsent, nfailed >>

\* the awaited handle_message returns; to_string; handler.tx.send; next loop
ProbeComplete(s, ok) ==
  /\ UNCHANGED notws
  /\ recvTask[s] = "probing"
  /\ TxSend(s, HandleMessage(inflight[s], ok))
  /\ recvTask' = [recvTask EXCEPT ![s] = "wait"]
  /\ inflight' = [inflight EXCEPT ![s] = None]
  /\ probe' = [probe EXCEPT ![s] = "none"]
  /\ UNCHANGED << hpc, sendTask, recvAbort, sendAbort, rxpos, held, outbox,
                  texts >>

\* faulty variant of RecvAckFrame: a failed handler.tx.send ends the loop
RecvAckFrameBreaksOnSendError(s, t) ==
  /\ UNCHANGED notws
  /\ recvTask[s] = "wait"
  /\ TextsSeen < MaxFrames
  /\ t \in AckTypes
  /\ TxSend(s, HandleMessage(t, TRUE))
  /\ texts' = [texts EXCEPT ![s] = @ + 1]
  /\ recvTask' = [recvTask EXCEPT ![s] = IF Receivers = {} THEN "done" ELSE @]
  /\ recvAbort' = [recvAbort EXCEPT ![s] = IF Receivers = {} THEN FALSE ELSE @]
  /\ UNCHANGED << hpc, sendTask, sendAbort, rxpos, held, outbox, inflight,
                  probe >>

\* Text decoding to Subscribe / Unsubscribe: handle_message awaits nothing
RecvAckFrame(s, t) ==
  /\ UNCHANGED notws
  /\ recvTask[s] = "wait"
  /\ TextsSeen < MaxFrames
  /\ t \in AckTypes
  /\ TxSend(s, HandleMessage(t, TRUE))
  /\ texts' = [texts EXCEPT ![s] = @ + 1]
  /\ UNCHANGED << hpc, recvTask, sendTask, recvAbort, sendAbort, rxpos, held,
                  outbox, inflight, probe >>

\* faulty variant of RecvBadText: the decode error ends the loop
RecvBadTextBreaks(s) ==
  /\ UNCHANGED notws
  /\ recvTask[s] = "wait"
  /\ TextsSeen < MaxFrames
  /\ TxSend(s, DecodeErrorResponse)
  /\ texts' = [texts EXCEPT ![s] = @ + 1]
  /\ recvTask' = [recvTask EXCEPT ![s] = "done"]
  /\ recvAbort' = [recvAbort EXCEPT ![s] = FALSE]
  /\ UNCHANGED << hpc, sendTask, sendAbort, rxpos, held,
                  outbox, inflight, probe >>

\* Text that serde_json::from_str rejects: the error envelope is sent
RecvBadText(s) ==
  /\ UNCHANGED notws
  /\ recvTask[s] = "wait"
  /\ TextsSeen < MaxFrames
  /\ TxSend(s, DecodeErrorResponse)
  /\ texts' = [texts EXCEPT ![s] = @ + 1]
  /\ UNCHANGED << hpc, recvTask, sendTask, recvAbort, sendAbort, rxpos, held,
                  outbox, inflight, probe >>

\* Binary, Ping, Pong: the `_ => {}` arm
RecvOther(s) ==
  /\ UNCHANGED notws
  /\ recvTask[s] = "wait"
  /\ UNCHANGED << hpc, recvTask, sendTask, recvAbort, sendAbort, chan, rxpos,
                  held, outbox, inflight, probe, texts, nsent, nfailed >>

\* Message::Close(_) => break
RecvClose(s) ==
  /\ UNCHANGED notws
  /\ recvTask[s] = "wait"
  /\ recvTask' = [recvTask EXCEPT ![s] = "done"]
  /\ recvAbort' = [recvAbort EXCEPT ![s] = FALSE]
  /\ UNCHANGED << hpc, sendTask, sendAbort, chan, rxpos, held, outbox,
                  inflight, probe, texts, nsent, nfailed >>

\* receiver.next() yields None (stream ended) or Some(Err(_)) => break
RecvTransportEnd(s) ==
  /\ UNCHANGED notws
  /\ recvTask[s] = "wait"
  /\ recvTask' = [recvTask EXCEPT ![s] = "done"]
  /\ recvAbort' = [recvAbort EXCEPT ![s] = FALSE]
  /\ UNCHANGED << hpc, sendTask, sendAbort, chan, rxpos, held, outbox,
                  inflight, probe, texts, nsent, nfailed >>

(***************************************************************************)
(* send_task                                                               *)
(***************************************************************************)
\* rx.recv() returns Ok(msg); sender.send(Message::Text(msg)) is awaited
SendRecvOk(s) ==
  /\ UNCHANGED notws
  /\ sendTask[s] = "wait"
  /\ ~Lagged(s)
  /\ rxpos[s] < Len(chan)
  /\ held' = [held EXCEPT ![s] = chan[rxpos[s] + 1]]
  /\ rxpos' = [rxpos EXCEPT ![s] = @ + 1]
  /\ sendTask' = [sendTask EXCEPT ![s] = "sending"]
  /\ UNCHANGED << hpc, recvTask, recvAbort, sendAbort, chan, outbox, inflight,
                  probe, texts, nsent, nfailed >>

\* faulty variant of SendRecvLagged: the loop goes on at the oldest message
\* the ring still holds
SendRecvLaggedSkips(s) ==
  /\ UNCHANGED notws
  /\ sendTask[s] = "wait"
  /\ Lagged(s)
  /\ rxpos' = [rxpos EXCEPT ![s] = Len(chan) - ChannelCapacity]
  /\ UNCHANGED << hpc, recvTask, sendTask, recvAbort, sendAbort, chan, held,
                  outbox, inflight, probe, texts, nsent, nfailed >>

\* rx.recv() returns Err(Lagged(_)): `while let Ok(msg)` ends, rx is dropped
SendRecvLagged(s) ==
  /\ UNCHANGED notws
  /\ sendTask[s] = "wait"
  /\ Lagged(s)
  /\ sendTask' = [sendTask EXCEPT ![s] = "done"]
  /\ sendAbort' = [sendAbort EXCEPT ![s] = FALSE]
  /\ UNCHANGED << hpc, recvTask, recvAbort, chan, rxpos, held, outbox,
                  inflight, probe, texts, nsent, nfailed >>

\* sender.send(..) returns Ok: the transport has the message
SendForward(s) ==
  /\ UNCHANGED notws
  /\ sendTask[s] = "sending"
  /\ outbox' = [outbox EXCEPT ![s] = Append(@, held[s])]
  /\ held' = [held EXCEPT ![s] = NoMsg]
  /\ sendTask' = [sendTask EXCEPT ![s] = "wait"]
  /\ UNCHANGED << hpc, recvTask, recvAbort, sendAbort, chan, rxpos, inflight,
                  probe, texts, nsent, nfailed >>

\* sender.send(..) returns Err: break, rx is dropped
SendFail(s) ==
  /\ UNCHANGED notws
  /\ sendTask[s] = "sending"
  /\ held' = [held EXCEPT ![s] = NoMsg]
  /\ sendTask' = [sendTask EXCEPT ![s] = "done"]
  /\ sendAbort' = [sendAbort EXCEPT ![s] = FALSE]
  /\ UNCHANGED << hpc, recvTask, recvAbort, chan, rxpos, outbox, inflight,
                  probe, texts, nsent, nfailed >>

(***************************************************************************)
(* tokio::select! over the two JoinHandles, and JoinHandle::abort.         *)
(* abort() marks the task cancelled and returns; the task's future is      *)
(* dropped when the task next returns to the scheduler, so the poll that   *)
(* is in progress on another worker may still take steps.                  *)
(***************************************************************************)
Live == {"wait", "probing", "sending"}

\* faulty variant of Select: the other task is left alone
SelectNoAbort(s) ==
  /\ UNCHANGED notws
  /\ hpc[s] = "select"
  /\ sendTask[s] = "done" \/ recvTask[s] = "done"
  /\ hpc' = [hpc EXCEPT ![s] = "returned"]
  /\ UNCHANGED << recvTask, sendTask, recvAbort, sendAbort, chan, rxpos, held,
                  outbox, inflight, probe, texts, nsent, nfailed >>

\* select! takes the branch of a finished task and aborts the other task
Select(s) ==
  /\ UNCHANGED notws
  /\ hpc[s] = "select"
  /\ \/ /\ sendTask[s] = "done"
        /\ recvAbort' = [recvAbort EXCEPT ![s] = (recvTask[s] \in Live)]
        /\ UNCHANGED sendAbort
     \/ /\ recvTask[s] = "done"
        /\ sendAbort' = [sendAbort EXCEPT ![s] = (sendTask[s] \in Live)]
        /\ UNCHANGED recvAbort
  /\ hpc' = [hpc EXCEPT ![s] = "returned"]
  /\ UNCHANGED << recvTask, sendTask, chan, rxpos, held, outbox, inflight,
                  probe, texts, nsent, nfailed >>

\* the aborted recv_task is dropped at its await: receiver.next() or
\* handle_message(..), whose Prober future is dropped with it
CancelRecv(s) ==
  /\ UNCHANGED notws
  /\ recvAbort[s]
  /\ recvTask[s] \in Live
  /\ recvTask' = [recvTask EXCEPT ![s] = "cancelled"]
  /\ recvAbort' = [recvAbort EXCEPT ![s] = FALSE]
  /\ probe' = [probe EXCEPT ![s] = IF @ = "running" THEN "dropped" ELSE @]
  /\ UNCHANGED << hpc, sendTask, sendAbort, chan, rxpos, held, outbox,
                  inflight, texts, nsent, nfailed >>

\* the aborted send_task is dropped at its await: rx.recv() or sender.send(..)
CancelSend(s) ==
  /\ UNCHANGED notws
  /\ sendAbort[s]
  /\ sendTask[s] \in Live
  /\ sendTask' = [sendTask EXCEPT ![s] = "cancelled"]
  /\ sendAbort' = [sendAbort EXCEPT ![s] = FALSE]
  /\ held' = [held EXCEPT ![s] = NoMsg]
  /\ UNCHANGED << hpc, recvTask, recvAbort, chan, rxpos, outbox, inflight,
                  probe, texts, nsent, nfailed >>

(***************************************************************************)
(* The multiplexer as a whole.                                             *)
(***************************************************************************)
WsIdle ==
  /\ hpc = [s \in Sessions |-> "idle"]
  /\ recvTask = [s \in Sessions |-> "none"]
  /\ sendTask = [s \in Sessions |-> "none"]
  /\ recvAbort = [s \in Sessions |-> FALSE]
  /\ sendAbort = [s \in Sessions |-> FALSE]
  /\ chan = << >>
  /\ rxpos = [s \in Sessions |-> 0]
  /\ held = [s \in Sessions |-> NoMsg]
  /\ outbox = [s \in Sessions |-> << >>]
  /\ inflight = [s \in Sessions |-> None]
  /\ probe = [s \in Sessions |-> "none"]
  /\ texts = [s \in Sessions |-> 0]
  /\ nsent = [s \in Sessions |-> 0]
  /\ nfailed = [s \in Sessions |-> 0]

WsNext ==
  \E s \in Sessions :
    \/ Connect(s)
    \/ \E t \in ProbeTypes \cap PeerRequests : RecvProbeFrame(s, t)
    \/ \E ok \in BOOLEAN : ProbeComplete(s, ok)
    \/ \E t \in AckTypes \cap PeerRequests : RecvAckFrame(s, t)
    \/ RecvBadText(s)
    \/ RecvOther(s)
    \/ RecvClose(s)
    \/ RecvTransportEnd(s)
    \/ SendRecvOk(s)
    \/ SendRecvLagged(s)
    \/ SendForward(s)
    \/ SendFail(s)
    \/ Select(s)
    \/ CancelRecv(s)
    \/ CancelSend(s)

(***************************************************************************)
(* f64 values of the statistics, kept exact: num / den, with den = 0 for   *)
(* the infinities and NaN.  Rounding of f64 arithmetic is not modelled.    *)
(***************************************************************************)
F64(x) == [num |-> x, den |-> 1]
Infinity == [num |-> 1, den |-> 0]
NegInfinity == [num |-> -1, den |-> 0]
NaN == [num |-> 0, den |-> 0]

\* a as f64 / b as f64
F64Div(a, b) ==
  IF b = 0 THEN (IF a = 0 THEN NaN ELSE IF a > 0 THEN Infinity ELSE NegInfinity)
  ELSE [num |-> a, den |-> b]

IsFinite(x) == x.den # 0
\* x <= y on finite values and infinities
F64Le(x, y) == x.num * y.den <= y.num * x.den
\* f64::min, f64::max
F64Min(x, y) == IF F64Le(x, y) THEN x ELSE y
F64Max(x, y) == IF F64Le(x, y) THEN y ELSE x

\* a - b on u32.  Below zero a debug build panics and a release build wraps
\* to 2^32 - (b - a); TLC's integers end at 2^31 - 1, which stands for the
\* wrapped value here, and `underflow` records that it happened.
U32Sub(a, b) == IF a >= b THEN a - b ELSE 2147483647 - (b - a - 1)

RECURSIVE FoldMin(_, _)
FoldMin(acc, seq) ==
  IF seq = << >> THEN acc ELSE FoldMin(F64Min(acc, F64(Head(seq))), Tail(seq))

RECURSIVE FoldMax(_, _)
FoldMax(acc, seq) ==
  IF seq = << >> THEN acc ELSE FoldMax(F64Max(acc, F64(Head(seq))), Tail(seq))

RECURSIVE SumSeq(_)
SumSeq(seq) == IF seq = << >> THEN 0 ELSE Head(seq) + SumSeq(Tail(seq))

\* faulty variant of PacketLoss: the share that arrived
PacketLossOfReceived(sent, recv) == F64Div(recv * 100, sent)

\* ((sent - recv) as f64 / sent as f64) * 100.0
PacketLoss(sent, recv) == F64Div(U32Sub(sent, recv) * 100, sent)

\* rtt_values.iter().fold(f64::INFINITY, |a, &b| a.min(b))
MinRtt(seq) == FoldMin(Infinity, seq)
\* rtt_values.iter().fold(f64::NEG_INFINITY, |a, &b| a.max(b))
MaxRtt(seq) == FoldMax(NegInfinity, seq)
\* faulty variant of AvgRtt: one sample too many in the divisor
AvgRttOverLenPlusOne(seq) == F64Div(SumSeq(seq), Len(seq) + 1)

\* rtt_values.iter().sum::<f64>() / rtt_values.len() as f64
AvgRtt(seq) == F64Div(SumSeq(seq), Len(seq))

Statistics(sent, recv, seq) ==
  [packet_loss |-> PacketLoss(sent, recv), min_rtt |-> MinRtt(seq),
   max_rtt |-> MaxRtt(seq), avg_rtt |-> AvgRtt(seq)]

(***************************************************************************)
(* What the environment does to one run.                                   *)
(***************************************************************************)
Latencies == 0 .. MaxLatency
\* timeout(config.timeout, attempt): Ok(Ok(_)) after rtt ms, Ok(Err(e)), Err(_)
AttemptOutcomes ==
  {[k |-> "ok", rtt |-> l] : l \in Latencies}
    \cup {[k |-> "err", rtt |-> 0], [k |-> "timeout", rtt |-> 0]}
\* lookup_host(..).await?.next(): an address, no address, or an io::Error
LookupOutcomes == {"ok", "empty", "ioerr"}

\* the Err a failed lookup makes the call return
LookupError(r) ==
  IF r = "empty" THEN [tag |-> "Err", variant |-> "Dns", msg |-> "could_not_resolve"]
  ELSE [tag |-> "Err", variant |-> "Io", msg |-> "io_error"]

ConfigHost == "host"
ConfigPort == "port"

(***************************************************************************)
(* PingService::ping                                                       *)
(***************************************************************************)
\* Client::new(&Config::default())?
PingClientNew(ok) ==
  /\ UNCHANGED notprobe
  /\ UNCHANGED << pending, timeouts >>
  /\ ppc = "start" /\ kind = "ping"
  /\ IF ok
       THEN ppc' = "resolve" /\ UNCHANGED result
       ELSE /\ ppc' = "done"
            /\ result' = [tag |-> "Err", variant |-> "Io", msg |-> "io_error"]
  /\ UNCHANGED << kind, count, i, packets_sent, received, rtt_values, stats,
                  failed, sleeps, lookups, underflow >>

\* host_addr = lookup_host(&host).await?.next().ok_or_else(Dns)?.ip()
PingResolve(r) ==
  /\ UNCHANGED notprobe
  /\ UNCHANGED << pending, timeouts >>
  /\ ppc = "resolve" /\ kind = "ping"
  /\ lookups' = lookups + 1
  /\ IF r = "ok"
       THEN ppc' = "loop" /\ UNCHANGED result
       ELSE ppc' = "done" /\ result' = LookupError(r)
  /\ UNCHANGED << kind, count, i, packets_sent, received, rtt_values, stats,
                  failed, sleeps, underflow >>

\* faulty variant of PingSend: the requests of all remaining iterations are
\* sent at once
PingSendSpawnsAll ==
  /\ UNCHANGED notprobe
  /\ ppc = "loop" /\ kind = "ping"
  /\ i < count
  /\ packets_sent' = packets_sent + 1
  /\ pending' = pending \cup (i .. count - 1)
  /\ ppc' = "await"
  /\ UNCHANGED << kind, count, i, received, rtt_values, stats, result, failed,
                  sleeps, lookups, underflow, timeouts >>

\* the head of one iteration of `for i in 0..config.count`: the echo request
\* is sent and timeout(config.timeout, pinger.ping(..)) is awaited
PingSend ==
  /\ UNCHANGED notprobe
  /\ ppc = "loop" /\ kind = "ping"
  /\ i < count
  /\ packets_sent' = packets_sent + 1
  /\ pending' = pending \cup {i}
  /\ ppc' = "await"
  /\ UNCHANGED << kind, count, i, received, rtt_values, stats, result, failed,
                  sleeps, lookups, underflow, timeouts >>

\* faulty variant of PingAttempt: a timeout ends the run
PingAttemptTimeoutAborts(o) ==
  /\ UNCHANGED notprobe
  /\ ppc = "await" /\ kind = "ping"
  /\ pending' = pending \ {i}
  /\ timeouts' = timeouts + (IF o.k = "timeout" THEN 1 ELSE 0)
  /\ IF o.k = "ok"
       THEN /\ received' = received + 1
            /\ rtt_values' = Append(rtt_values, o.rtt)
            /\ UNCHANGED << failed, result >>
            /\ ppc' = "sleep"
       ELSE /\ failed' = failed + 1
            /\ UNCHANGED << received, rtt_values >>
            /\ IF o.k = "timeout"
                 THEN /\ ppc' = "done"
                      /\ result' = [tag |-> "Err", variant |-> "Timeout",
                                    msg |-> "timeout"]
                 ELSE ppc' = "sleep" /\ UNCHANGED result
  /\ UNCHANGED << kind, count, i, packets_sent, stats, sleeps, lookups,
                  underflow >>

\* the rest of the iteration up to the end of the match
PingAttempt(o) ==
  /\ UNCHANGED notprobe
  /\ ppc = "await" /\ kind = "ping"
  /\ pending' = pending \ {i}
  /\ timeouts' = timeouts + (IF o.k = "timeout" THEN 1 ELSE 0)
  /\ IF o.k = "ok"
       THEN /\ received' = received + 1
            /\ rtt_values' = Append(rtt_values, o.rtt)
            /\ UNCHANGED failed
       ELSE /\ failed' = failed + 1
            /\ UNCHANGED << received, rtt_values >>
  /\ ppc' = "sleep"
  /\ UNCHANGED << kind, count, i, packets_sent, stats, result, sleeps, lookups,
                  underflow >>

\* tokio::time::sleep(Duration::from_millis(100)) at the end of the body
PingSleep ==
  /\ UNCHANGED notprobe
  /\ UNCHANGED << pending, timeouts >>
  /\ ppc = "sleep" /\ kind = "ping"
  /\ sleeps' = sleeps + 1
  /\ i' = i + 1
  /\ ppc' = "loop"
  /\ UNCHANGED << kind, count, packets_sent, received, rtt_values, stats,
                  result, failed, lookups, underflow >>

\* faulty variant of PingFinish: no packets_received == 0 return
PingFinishNoZeroCheck ==
  /\ UNCHANGED notprobe
  /\ UNCHANGED << pending, timeouts >>
  /\ ppc = "loop" /\ kind = "ping"
  /\ i >= count
  /\ stats' = Statistics(packets_sent, received, rtt_values)
  /\ ppc' = "lookup_ip"
  /\ UNCHANGED << result, underflow >>
  /\ UNCHANGED << kind, count, i, packets_sent, received, rtt_values, failed,
                  sleeps, lookups >>

\* after the loop: the packets_received == 0 return, else the statistics
PingFinish ==
  /\ UNCHANGED notprobe
  /\ UNCHANGED << pending, timeouts >>
  /\ ppc = "loop" /\ kind = "ping"
  /\ i >= count
  /\ IF received = 0
       THEN /\ ppc' = "done"
            /\ result' = [tag |-> "Err", variant |-> "Ping",
                          msg |-> "all_packets_lost"]
            /\ UNCHANGED << stats, underflow >>
       ELSE /\ stats' = Statistics(packets_sent, received, rtt_values)
            /\ underflow' = (underflow \/ packets_sent < received)
            /\ ppc' = "lookup_ip"
            /\ UNCHANGED result
  /\ UNCHANGED << kind, count, i, packets_sent, received, rtt_values, failed,
                  sleeps, lookups >>

\* ip = lookup_host(&host).await?.next().ok_or_else(Dns)?; Ok(PingResult {..})
PingLookupIp(r) ==
  /\ UNCHANGED notprobe
  /\ UNCHANGED << pending, timeouts >>
  /\ ppc = "lookup_ip" /\ kind = "ping"
  /\ lookups' = lookups + 1
  /\ ppc' = "done"
  /\ result' =
       IF r = "ok"
         THEN [tag |-> "Ok", host |-> ConfigHost, ip |-> "ip",
               packet_loss |-> stats.packet_loss, min_rtt |-> stats.min_rtt,
               max_rtt |-> stats.max_rtt, avg_rtt |-> stats.avg_rtt,
               packets_sent |-> packets_sent, packets_received |-> received]
         ELSE LookupError(r)
  /\ UNCHANGED << kind, count, i, packets_sent, received, rtt_values, stats,
                  failed, sleeps, underflow >>

(***************************************************************************)
(* TcpingService::tcping                                                   *)
(***************************************************************************)
\* rtt_values = Vec::new(); successful_attempts = 0; addr = format!(..)
TcpingBegin ==
  /\ UNCHANGED notprobe
  /\ UNCHANGED << pending, timeouts >>
  /\ ppc = "start" /\ kind = "tcp"
  /\ ppc' = "loop"
  /\ UNCHANGED << kind, count, i, packets_sent, received, rtt_values, stats,
                  result, failed, sleeps, lookups, underflow >>

\* the head of one iteration of `for i in 0..config.count`:
\* timeout(config.timeout, TcpStream::connect(&addr)) is awaited
TcpingConnect ==
  /\ UNCHANGED notprobe
  /\ ppc = "loop" /\ kind = "tcp"
  /\ i < count
  /\ pending' = pending \cup {i}
  /\ ppc' = "await"
  /\ UNCHANGED << kind, count, i, packets_sent, received, rtt_values, stats,
                  result, failed, sleeps, lookups, underflow, timeouts >>

\* faulty variant of TcpingAttempt: a timeout cancels the run
TcpingAttemptTimeoutCancels(o) ==
  /\ UNCHANGED notprobe
  /\ ppc = "await" /\ kind = "tcp"
  /\ pending' = pending \ {i}
  /\ timeouts' = timeouts + (IF o.k = "timeout" THEN 1 ELSE 0)
  /\ IF o.k = "ok"
       THEN /\ received' = received + 1
            /\ rtt_values' = Append(rtt_values, o.rtt)
            /\ UNCHANGED failed
       ELSE /\ failed' = failed + 1
            /\ UNCHANGED << received, rtt_values >>
  /\ underflow' = (underflow \/ count < 1)
  /\ IF o.k = "timeout"
       THEN /\ ppc' = "done"
            /\ result' = [tag |-> "Err", variant |-> "Timeout",
                          msg |-> "timeout"]
            /\ UNCHANGED i
       ELSE /\ UNCHANGED result
            /\ IF i < U32Sub(count, 1)
                 THEN ppc' = "sleep" /\ UNCHANGED i
                 ELSE ppc' = "loop" /\ i' = i + 1
  /\ UNCHANGED << kind, count, packets_sent, stats, sleeps, lookups >>

\* the rest of the iteration up to `if i < config.count - 1`
TcpingAttempt(o) ==
  /\ UNCHANGED notprobe
  /\ ppc = "await" /\ kind = "tcp"
  /\ pending' = pending \ {i}
  /\ timeouts' = timeouts + (IF o.k = "timeout" THEN 1 ELSE 0)
  /\ IF o.k = "ok"
       THEN /\ received' = received + 1
            /\ rtt_values' = Append(rtt_values, o.rtt)
            /\ UNCHANGED failed
       ELSE /\ failed' = failed + 1
            /\ UNCHANGED << received, rtt_values >>
  /\ underflow' = (underflow \/ count < 1)
  /\ IF i < U32Sub(count, 1)
       THEN ppc' = "sleep" /\ UNCHANGED i
       ELSE ppc' = "loop" /\ i' = i + 1
  /\ UNCHANGED << kind, count, packets_sent, stats, result, sleeps, lookups >>

\* tokio::time::sleep(config.delay)
TcpingSleep ==
  /\ UNCHANGED notprobe
  /\ UNCHANGED << pending, timeouts >>
  /\ ppc = "sleep" /\ kind = "tcp"
  /\ sleeps' = sleeps + 1
  /\ i' = i + 1
  /\ ppc' = "loop"
  /\ UNCHANGED << kind, count, packets_sent, received, rtt_values, stats,
                  result, failed, lookups, underflow >>

\* faulty variant of TcpingFinish: no successful_attempts == 0 return
TcpingFinishNoZeroCheck ==
  /\ UNCHANGED notprobe
  /\ UNCHANGED << pending, timeouts >>
  /\ ppc = "loop" /\ kind = "tcp"
  /\ i >= count
  /\ stats' = Statistics(count, received, rtt_values)
  /\ underflow' = (underflow \/ count < received)
  /\ ppc' = "lookup_ip"
  /\ UNCHANGED << kind, count, i, packets_sent, received, rtt_values, failed,
                  sleeps, lookups, result >>

\* after the loop: the successful_attempts == 0 return, else the statistics
TcpingFinish ==
  /\ UNCHANGED notprobe
  /\ UNCHANGED << pending, timeouts >>
  /\ ppc = "loop" /\ kind = "tcp"
  /\ i >= count
  /\ IF received = 0
       THEN /\ ppc' = "done"
            /\ result' = [tag |-> "Err", variant |-> "Tcp",
                          msg |-> "all_connections_failed"]
            /\ UNCHANGED << stats, underflow >>
       ELSE /\ stats' = Statistics(count, received, rtt_values)
            /\ underflow' = (underflow \/ count < received)
            /\ ppc' = "lookup_ip"
            /\ UNCHANGED result
  /\ UNCHANGED << kind, count, i, packets_sent, received, rtt_values, failed,
                  sleeps, lookups >>

\* ip = lookup_host(&config.host).await?.next().ok_or_else(Dns)?;
\* Ok(TcpingResult {..})
TcpingLookupIp(r) ==
  /\ UNCHANGED notprobe
  /\ UNCHANGED << pending, timeouts >>
  /\ ppc = "lookup_ip" /\ kind = "tcp"
  /\ lookups' = lookups + 1
  /\ ppc' = "done"
  /\ result' =
       IF r = "ok"
         THEN [tag |-> "Ok", host |-> ConfigHost, port |-> ConfigPort,
               ip |-> "ip", success |-> (received > 0),
               avg_rtt |-> stats.avg_rtt, min_rtt |-> stats.min_rtt,
               max_rtt |-> stats.max_rtt, attempts |-> count,
               successful_attempts |-> received,
               packet_loss |-> stats.packet_loss]
         ELSE LookupError(r)
  /\ UNCHANGED << kind, count, i, packets_sent, received, rtt_values, stats,
                  failed, sleeps, underflow >>

(***************************************************************************)
(* TracerouteService::traceroute.  A String that holds an address is kept  *)
(* as its IP part and its ":port" part ("" when the text has none).        *)
(***************************************************************************)
\* format!("10.0.0.{}", ttl): the text of an IP address, no port
IpText(n) == [ip |-> n, port |-> ""]
\* faulty variant of SocketAddrToString: the text of the IP address alone
SocketAddrIpToString(a) == [ip |-> a.ip, port |-> ""]

\* SocketAddr::to_string(): "<ip>:<port>"
SocketAddrToString(a) == [ip |-> a.ip, port |-> a.port]
\* no address resolved yet
NoAddr == [ip |-> 0, port |-> ""]
\* Option<String>
NoneText == [some |-> FALSE, text |-> IpText(0)]
SomeText(t) == [some |-> TRUE, text |-> t]

\* the SocketAddr lookup_host(&config.host) may yield: 10.0.0.n:port
TargetAddrs == {[ip |-> n, port |-> ConfigPort] : n \in 1 .. MaxHops}

\* simulate_ttl_probe: late = the simulated delay exceeds the timeout
SimulateTtlProbe(t, late) ==
  IF late THEN [tag |-> "Err", variant |-> "Timeout", ip |-> IpText(0)]
  ELSE IF t > SimulatedHopLimit
    THEN [tag |-> "Err", variant |-> "Traceroute", ip |-> IpText(0)]
  ELSE [tag |-> "Ok", variant |-> "none", ip |-> IpText(t)]

\* faulty variant of ProbeHop: the reverse lookup of an answered hop fails
ProbeHopNoHostname(t, late) ==
  LET r == SimulateTtlProbe(t, late)
  IN  IF r.tag = "Ok"
        THEN [tag |-> "Ok",
              hop |-> [hop_number |-> t, ip |-> SomeText(r.ip),
                       hostname |-> "none", rtt |-> "some", success |-> TRUE]]
        ELSE [tag |-> "Ok",
              hop |-> [hop_number |-> t, ip |-> NoneText, hostname |-> "none",
                       rtt |-> "none", success |-> FALSE]]

\* faulty variant of ProbeHop: the error of the simulated probe is returned
ProbeHopPropagates(t, late) ==
  LET r == SimulateTtlProbe(t, late)
  IN  IF r.tag = "Ok"
        THEN [tag |-> "Ok",
              hop |-> [hop_number |-> t, ip |-> SomeText(r.ip),
                       hostname |-> "some", rtt |-> "some", success |-> TRUE]]
        ELSE [tag |-> "Err",
              hop |-> [hop_number |-> t, ip |-> NoneText, hostname |-> "none",
                       rtt |-> "none", success |-> FALSE]]

\* probe_hop: always Ok(Hop); reverse_dns_lookup never fails
ProbeHop(t, late) ==
  LET r == SimulateTtlProbe(t, late)
  IN  IF r.tag = "Ok"
        THEN [tag |-> "Ok",
              hop |-> [hop_number |-> t, ip |-> SomeText(r.ip),
                       hostname |-> "some", rtt |-> "some", success |-> TRUE]]
        ELSE [tag |-> "Ok",
              hop |-> [hop_number |-> t, ip |-> NoneText, hostname |-> "none",
                       rtt |-> "none", success |-> FALSE]]

\* hop.ip.as_ref().map(|ip| ip == &target_ip).unwrap_or(false)
IsTarget(hop) == hop.ip.some /\ hop.ip.text = target_ip

\* target_ip = lookup_host(&config.host).await?.next().ok_or_else(Dns)?
\*               .to_string()
TraceResolve(r, a) ==
  /\ UNCHANGED nottrace
  /\ UNCHANGED tpending
  /\ tpc = "start"
  /\ IF r = "ok"
       THEN /\ target' = a
            /\ target_ip' = SocketAddrToString(a)
            /\ ttl' = 1
            /\ tpc' = "probe"
            /\ UNCHANGED tresult
       ELSE /\ tpc' = "done"
            /\ tresult' = LookupError(r)
            /\ UNCHANGED << target, target_ip, ttl >>
  /\ UNCHANGED << max_hops, hops, tdelays >>

\* the head of one iteration of `for ttl in 1..=config.max_hops`:
\* self.probe_hop(..) is awaited
TraceProbeStart ==
  /\ UNCHANGED nottrace
  /\ tpc = "probe"
  /\ ttl <= max_hops
  /\ tpending' = tpending \cup {ttl}
  /\ tpc' = "await"
  /\ UNCHANGED << max_hops, ttl, hops, target, target_ip, tdelays, tresult >>

\* the rest of the iteration up to the sleep
TraceProbe(late) ==
  /\ UNCHANGED nottrace
  /\ tpc = "await"
  /\ tpending' = tpending \ {ttl}
  /\ LET r == ProbeHop(ttl, late)
     IN  IF r.tag = "Ok"
           THEN /\ hops' = Append(hops, r.hop)
                /\ tpc' = IF IsTarget(r.hop) THEN "break" ELSE "sleep"
                /\ UNCHANGED tresult
           ELSE /\ tpc' = "done"
                /\ tresult' = [tag |-> "Err", variant |-> "Timeout",
                               msg |-> "probe_failed"]
                /\ UNCHANGED hops
  /\ UNCHANGED << max_hops, ttl, target, target_ip, tdelays >>

\* tokio::time::sleep(config.delay) at the end of the body
TraceSleep ==
  /\ UNCHANGED nottrace
  /\ UNCHANGED tpending
  /\ tpc = "sleep"
  /\ tdelays' = tdelays + 1
  /\ ttl' = ttl + 1
  /\ tpc' = "probe"
  /\ UNCHANGED << max_hops, hops, target, target_ip, tresult >>

\* faulty variant of TraceFinish: a walk that did not meet the target is an
\* error
TraceFinishErrOnBudget ==
  /\ UNCHANGED nottrace
  /\ UNCHANGED tpending
  /\ tpc = "break" \/ (tpc = "probe" /\ ttl > max_hops)
  /\ tpc' = "done"
  /\ tresult' =
       IF tpc = "break"
         THEN [tag |-> "Ok", host |-> ConfigHost, ip |-> target_ip,
               hops |-> hops, max_hops |-> max_hops]
         ELSE [tag |-> "Err", variant |-> "Traceroute", msg |-> "not_reached"]
  /\ UNCHANGED << max_hops, ttl, hops, target, target_ip, tdelays >>

\* after the loop (break, or the range is exhausted): Ok(TracerouteResult)
TraceFinish ==
  /\ UNCHANGED nottrace
  /\ UNCHANGED tpending
  /\ tpc = "break" \/ (tpc = "probe" /\ ttl > max_hops)
  /\ tpc' = "done"
  /\ tresult' = [tag |-> "Ok", host |-> ConfigHost, ip |-> target_ip,
                 hops |-> hops, max_hops |-> max_hops]
  /\ UNCHANGED << max_hops, ttl, hops, target, target_ip, tdelays >>

(***************************************************************************)
(* TcpingService::check_port and scan_ports                                *)
(***************************************************************************)
\* port numbers of the model
PortNumbers == 1 .. MaxPortNumber
\* the ports argument: any Vec<u16>
PortLists == UNION {[1 .. n -> PortNumbers] : n \in 0 .. MaxPorts}
\* timeout(timeout_duration, TcpStream::connect(&addr)).await
ConnectOutcomes == {"connected", "refused", "timeout"}

\* faulty variant of CheckPort: the connect error is returned
CheckPortPropagates(o) ==
  IF o = "connected" THEN [tag |-> "Ok", value |-> TRUE]
  ELSE [tag |-> "Err", value |-> FALSE]

\* check_port: Ok(Ok(_)) => Ok(true), _ => Ok(false)
CheckPort(o) == [tag |-> "Ok", value |-> (o = "connected")]

\* one iteration of `for port in ports`
ScanStep(o) ==
  /\ UNCHANGED notscan
  /\ spc = "loop"
  /\ next < Len(ports)
  /\ LET port == ports[next + 1]
         r    == CheckPort(o)
     IN  /\ connects' = Append(connects, [port |-> port, outcome |-> o])
         /\ IF r.tag = "Ok"
              THEN /\ results' = Append(results, << port, r.value >>)
                   /\ next' = next + 1
                   /\ UNCHANGED << spc, sresult >>
              ELSE /\ spc' = "done"
                   /\ sresult' = [tag |-> "Err", value |-> << >>]
                   /\ UNCHANGED << results, next >>
  /\ UNCHANGED ports

\* Ok(results)
ScanFinish ==
  /\ UNCHANGED notscan
  /\ spc = "loop"
  /\ next = Len(ports)
  /\ spc' = "done"
  /\ sresult' = [tag |-> "Ok", value |-> results]
  /\ UNCHANGED << ports, next, results, connects >>

(***************************************************************************)
(* cli: handle_port_scan and parse_port_range.  The range argument is kept *)
(* as the pieces its '-' characters separate (what range.split('-')        *)
(* yields); a piece is a run of digits, the empty text, or other text.     *)
(***************************************************************************)
Digits(n) == [kind |-> "digits", value |-> n]
Pieces ==
  {Digits(n) : n \in (0 .. MaxPortNumber) \cup {U16Max + 1}}
    \cup {[kind |-> "empty", value |-> 0], [kind |-> "junk", value |-> 0]}
\* the range arguments of the model
RangeInputs == UNION {[1 .. n -> Pieces] : n \in 1 .. MaxPieces}

\* str::parse::<u16>()
ParseU16(piece) ==
  IF piece.kind = "digits" /\ piece.value <= U16Max
    THEN [tag |-> "Ok", value |-> piece.value]
    ELSE [tag |-> "Err", value |-> 0]

\* (start..=end).collect()
RangeInclusive(start, end) == [k \in 1 .. (end - start + 1) |-> start + k - 1]

\* faulty variant of ParsePortRange: no start > end return
ParsePortRangeNoOrderCheck(r) ==
  IF Len(r) > 1
    THEN IF Len(r) # 2
           THEN [tag |-> "Err", value |-> << >>, msg |-> "invalid_format"]
           ELSE LET start == ParseU16(r[1])
                    end   == ParseU16(r[2])
                IN  IF start.tag = "Err" \/ end.tag = "Err"
                      THEN [tag |-> "Err", value |-> << >>,
                            msg |-> "parse_int_error"]
                    ELSE [tag |-> "Ok", msg |-> "",
                          value |-> RangeInclusive(start.value, end.value)]
    ELSE LET port == ParseU16(r[1])
         IN  IF port.tag = "Err"
               THEN [tag |-> "Err", value |-> << >>, msg |-> "parse_int_error"]
               ELSE [tag |-> "Ok", value |-> << port.value >>, msg |-> ""]

\* parse_port_range
ParsePortRange(r) ==
  IF Len(r) > 1
    THEN IF Len(r) # 2
           THEN [tag |-> "Err", value |-> << >>, msg |-> "invalid_format"]
           ELSE LET start == ParseU16(r[1])
                    end   == ParseU16(r[2])
                IN  IF start.tag = "Err" \/ end.tag = "Err"
                      THEN [tag |-> "Err", value |-> << >>,
                            msg |-> "parse_int_error"]
                    ELSE IF start.value > end.value
                      THEN [tag |-> "Err", value |-> << >>,
                            msg |-> "start_gt_end"]
                    ELSE [tag |-> "Ok", msg |-> "",
                          value |-> RangeInclusive(start.value, end.value)]
    ELSE LET port == ParseU16(r[1])
         IN  IF port.tag = "Err"
               THEN [tag |-> "Err", value |-> << >>, msg |-> "parse_int_error"]
               ELSE [tag |-> "Ok", value |-> << port.value >>, msg |-> ""]

\* let ports = parse_port_range(&range)?; then service.scan_ports(..) begins
CliParsePortRange ==
  /\ UNCHANGED notcli
  /\ cpc = "parse"
  /\ LET r == ParsePortRange(range)
     IN  IF r.tag = "Ok"
           THEN /\ ports' = r.value
                /\ spc' = "loop"
                /\ cpc' = "scan"
                /\ UNCHANGED cresult
           ELSE /\ cpc' = "done"
                /\ cresult' = [tag |-> "Err", msg |-> r.msg]
                /\ UNCHANGED << ports, spc >>
  /\ UNCHANGED << range, next, results, connects, sresult >>

\* scan_ports(..).await? has returned; the results are printed; Ok(())
CliScanReturned ==
  /\ UNCHANGED notcli
  /\ cpc = "scan"
  /\ spc = "done"
  /\ cpc' = "done"
  /\ cresult' = IF sresult.tag = "Ok" THEN [tag |-> "Ok", msg |-> ""]
                ELSE [tag |-> "Err", msg |-> "scan_error"]
  /\ UNCHANGED << range, scanvars >>

(***************************************************************************)
(* WebsiteTestService::test_website.  A String whose case matters is kept  *)
(* as its letters in upper case and whether it is written in upper case.   *)
(***************************************************************************)
Text(l, u) == [some |-> TRUE, letters |-> l, upper |-> u]
\* str::to_uppercase()
ToUppercase(t) == [t EXCEPT !.upper = TRUE]
\* str::to_lowercase(): the same letters, compared against lower-case literals
ToLowercase(t) == [t EXCEPT !.upper = FALSE]

\* the config.method values of the model: "GET", "get", .., "PATCH", ""
Methods ==
  {Text(l, u) : l \in {"GET", "POST", "PUT", "DELETE", "HEAD", "PATCH"},
                u \in BOOLEAN} \cup {Text("", TRUE)}
\* the arms of `match config.method.to_uppercase().as_str()`
SupportedMethods ==
  {Text(l, TRUE) : l \in {"GET", "POST", "PUT", "DELETE", "HEAD"}}

\* Option<u16>, Option<usize>
NoNumber == [some |-> FALSE, value |-> 0]
SomeNumber(n) == [some |-> TRUE, value |-> n]

\* what request.send().await may give
StatusCodes == {200, 204, 301, 404, 500}
TransportFailures == {"dns", "connect", "tls", "timeout"}
\* faulty variant of IsSuccess: a redirect counts as a success
IsSuccessBelow400(code) == 200 <= code /\ code <= 399

\* StatusCode::is_success
IsSuccess(code) == 200 <= code /\ code <= 299

\* Client::builder()..build().map_err(Http)?
WebBuildClient(ok) ==
  /\ UNCHANGED notweb
  /\ wpc = "start"
  /\ IF ok
       THEN wpc' = "built" /\ UNCHANGED wresult
       ELSE /\ wpc' = "done"
            /\ wresult' = [tag |-> "Err", variant |-> "Http",
                           msg |-> "failed_to_build_http_client"]
  /\ UNCHANGED << wmethod, wurl, wclock, wrequests, wtransport >>

\* the match on the method, the headers, and request.send() up to its await
WebRequest ==
  /\ UNCHANGED notweb
  /\ wpc = "built"
  /\ IF ToUppercase(wmethod) \in SupportedMethods
       THEN /\ wrequests' = wrequests + 1
            /\ wpc' = "sent"
            /\ UNCHANGED wresult
       ELSE /\ wpc' = "done"
            /\ wresult' = [tag |-> "Err", variant |-> "InvalidInput",
                           msg |-> "unsupported_http_method"]
            /\ UNCHANGED wrequests
  /\ UNCHANGED << wmethod, wurl, wclock, wtransport >>

\* a millisecond passes while the request is awaited
WebTick ==
  /\ UNCHANGED notweb
  /\ wpc = "sent"
  /\ wclock < MaxLatency
  /\ wclock' = wclock + 1
  /\ UNCHANGED << wpc, wmethod, wurl, wrequests, wtransport, wresult >>

\* Ok(response) => Ok(WebsiteTestResult {..})
WebResponse(code, len, hs) ==
  /\ UNCHANGED notweb
  /\ wpc = "sent"
  /\ wpc' = "done"
  /\ wtransport' = "response"
  /\ wresult' = [tag |-> "Ok", url |-> wurl, status_code |-> SomeNumber(code),
                 response_time |-> wclock, content_length |-> len,
                 success |-> IsSuccess(code), error_message |-> "none",
                 headers |-> hs, ssl_info |-> (wurl = "https")]
  /\ UNCHANGED << wmethod, wurl, wclock, wrequests >>

\* faulty variant of WebSendError: the reqwest error is returned
WebSendErrorPropagates(e) ==
  /\ UNCHANGED notweb
  /\ wpc = "sent"
  /\ wpc' = "done"
  /\ wtransport' = e
  /\ wresult' = [tag |-> "Err", variant |-> "Http", msg |-> e]
  /\ UNCHANGED << wmethod, wurl, wclock, wrequests >>

\* Err(e) => Ok(WebsiteTestResult { success: false, .. })
WebSendError(e) ==
  /\ UNCHANGED notweb
  /\ wpc = "sent"
  /\ wpc' = "done"
  /\ wtransport' = e
  /\ wresult' = [tag |-> "Ok", url |-> wurl, status_code |-> NoNumber,
                 response_time |-> wclock, content_length |-> NoNumber,
                 success |-> FALSE, error_message |-> e,
                 headers |-> {}, ssl_info |-> FALSE]
  /\ UNCHANGED << wmethod, wurl, wclock, wrequests >>

(***************************************************************************)
(* The functions that take a protocol for a hop discovery:                 *)
(* TracerouteService::trace_with_protocol and the cli's handle_traceroute. *)
(***************************************************************************)
\* the protocol arguments of the model: "ICMP", "icmp", .., "bogus"
Protocols ==
  {Text(l, u) : l \in {"ICMP", "UDP", "TCP", "BOGUS"}, u \in BOOLEAN}
\* the arms of `match protocol.to_lowercase().as_str()`
SupportedProtocols == {Text(l, FALSE) : l \in {"ICMP", "UDP", "TCP"}}

\* TracerouteConfig::default().max_hops, 30 in the code, on the model's scale
DefaultMaxHops == MaxHops

\* trace_with_protocol up to the call of traceroute, or its Err
TraceWithProtocol ==
  /\ UNCHANGED nottrace
  /\ UNCHANGED tpending
  /\ tpc = "entry" /\ tentry = "trace_with_protocol"
  /\ IF ToLowercase(protocol) \in SupportedProtocols
       THEN /\ max_hops' = DefaultMaxHops
            /\ tpc' = "start"
            /\ UNCHANGED tresult
       ELSE /\ tpc' = "done"
            /\ tresult' = [tag |-> "Err", variant |-> "InvalidInput",
                           msg |-> "unsupported_protocol"]
            /\ UNCHANGED max_hops
  /\ UNCHANGED << ttl, hops, target, target_ip, tdelays >>

\* handle_traceroute up to the call of traceroute: protocol is only printed
CliHandleTraceroute ==
  /\ UNCHANGED nottrace
  /\ UNCHANGED tpending
  /\ tpc = "entry" /\ tentry = "handle_traceroute"
  /\ tpc' = "start"
  /\ UNCHANGED << max_hops, ttl, hops, target, target_ip, tdelays, tresult >>

(***************************************************************************)
(* DnsService::query and the places that build its DnsConfig from a        *)
(* request: handle_message (websocket), handle_dns (api), handle_dns (cli) *)
(***************************************************************************)
\* enum DnsQueryType, by the text Display writes
QueryTypes == {"A", "AAAA", "CNAME", "MX", "TXT", "NS", "SOA", "PTR", "ALL"}
\* the query_type texts of the model's requests: each name written in upper
\* case or not, a text that names no type, and no text at all
QueryTexts ==
  {Text(l, u) : l \in QueryTypes \cup {"BOGUS"}, u \in BOOLEAN} \cup {NoText}

\* websocket / api: match query_type.as_deref() { Some("A") => .., _ => A }
QueryTypeOrA(t) ==
  IF t.some /\ t.upper /\ t.letters \in QueryTypes THEN t.letters ELSE "A"

\* cli: match query_type.to_uppercase().as_str() { .., _ => exit(1) }
QueryTypeOrExit(t) ==
  IF ToUppercase(t).letters \in QueryTypes THEN ToUppercase(t).letters
  ELSE "exit"

\* what the resolver may answer to a call: an error, or a non-empty list
IpAnswers == {[family |-> "v4", value |-> "a"], [family |-> "v4", value |-> "b"],
              [family |-> "v6", value |-> "c"]}
NameAnswers == {[family |-> "none", value |-> "x"],
                [family |-> "none", value |-> "y"]}
AnswerLists(S) == UNION {[1 .. n -> S] : n \in 1 .. MaxAnswers}
Responses(call) ==
  {[ok |-> FALSE, list |-> << >>]}
    \cup {[ok |-> TRUE, list |-> l] :
            l \in AnswerLists(IF call = "lookup_ip" THEN IpAnswers
                              ELSE NameAnswers)}

\* faulty variant of ResolverCall: every type uses the address lookup
ResolverCallAlwaysIp(t) == "lookup_ip"

\* the resolver method the arm of `match config.query_type` calls
ResolverCall(t) ==
  IF t \in {"A", "AAAA"} THEN "lookup_ip"
  ELSE IF t = "MX" THEN "mx_lookup"
  ELSE IF t = "TXT" THEN "txt_lookup"
  ELSE "ns_lookup"

\* DnsRecord { record_type, value, ttl: 300 }
DnsRecord(t, a) == [record_type |-> t, value |-> a.value, ttl |-> 300]

RECURSIVE MapRecords(_, _)
MapRecords(t, list) ==
  IF list = << >> THEN << >>
  ELSE << DnsRecord(t, Head(list)) >> \o MapRecords(t, Tail(list))

\* the for loop of the arm: A keeps IpAddr::V4, AAAA keeps IpAddr::V6
Records(t, list) ==
  IF t = "A" THEN MapRecords(t, SelectSeq(list, LAMBDA a : a.family = "v4"))
  ELSE IF t = "AAAA"
    THEN MapRecords(t, SelectSeq(list, LAMBDA a : a.family = "v6"))
  ELSE MapRecords(t, list)

\* the DnsConfig is built from the request
DnsRequest ==
  /\ UNCHANGED notdns
  /\ dpc = "request"
  /\ IF dentry = "cli"
       THEN IF QueryTypeOrExit(qtext) = "exit"
              THEN /\ dpc' = "done"
                   /\ dresult' = [tag |-> "Err", variant |-> "Exit",
                                  msg |-> "invalid_query_type"]
                   /\ UNCHANGED qtype
              ELSE /\ qtype' = QueryTypeOrExit(qtext)
                   /\ dpc' = "query"
                   /\ UNCHANGED dresult
       ELSE /\ qtype' = QueryTypeOrA(qtext)
            /\ dpc' = "query"
            /\ UNCHANGED dresult
  /\ UNCHANGED << dentry, qtext, qinner, dcalls, drecords >>

\* CNAME | SOA | PTR | ALL => return Box::pin(self.query(a_config)).await
DnsFallback ==
  /\ UNCHANGED notdns
  /\ dpc = "query"
  /\ qtype \in {"CNAME", "SOA", "PTR", "ALL"}
  /\ qinner' = "A"
  /\ dpc' = "inner"
  /\ UNCHANGED << dentry, qtext, qtype, dcalls, drecords, dresult >>

\* the query type of the query call that is running
RunningType == IF dpc = "inner" THEN qinner ELSE qtype

\* the arm of A, AAAA, MX, TXT or NS: the lookup, the records, the result
DnsLookup(resp) ==
  /\ UNCHANGED notdns
  /\ \/ dpc = "query" /\ qtype \in {"A", "AAAA", "MX", "TXT", "NS"}
     \/ dpc = "inner"
  /\ resp \in Responses(ResolverCall(RunningType))
  /\ dcalls' = Append(dcalls, [call |-> ResolverCall(RunningType),
                               ok |-> resp.ok, list |-> resp.list])
  /\ dpc' = "done"
  /\ IF resp.ok
       THEN /\ drecords' = Records(RunningType, resp.list)
            /\ dresult' = [tag |-> "Ok", domain |-> "domain",
                           query_type |-> RunningType,
                           records |-> Records(RunningType, resp.list)]
       ELSE /\ dresult' = [tag |-> "Err", variant |-> "Dns",
                           msg |-> "lookup_failed"]
            /\ UNCHANGED drecords
  /\ UNCHANGED << dentry, qtext, qtype, qinner >>

(***************************************************************************)
(* The response bodies of the two interfaces: WebSocketResponse as built   *)
(* by handle_message and recv_task, ApiResponse as built by the handlers.  *)
(***************************************************************************)
\* enum NetworkError
NetworkErrors ==
  {"Io", "Dns", "Ping", "Tcp", "Http", "Traceroute", "Timeout", "InvalidInput",
   "Other"}
\* what the Prober call of a request returns
ProberOutcomes == {"Ok"} \cup NetworkErrors

\* the text frames the websocket may get: a decodable WebSocketMessage, or a
\* text serde_json::from_str rejects
WsRequests == ProbeTypes \cup AckTypes \cup {"undecodable"}
\* the routes of create_router
ApiRequests == ProbeTypes \cup {"health", "status"}

\* ApiResponse::success(data)
ApiResponseSuccess(d) == [success |-> TRUE, data |-> d, error |-> "null"]

\* faulty variant of ApiResponseError: the body keeps a data member
ApiResponseErrorWithData(e) == [success |-> FALSE, data |-> "result", error |-> e]

\* ApiResponse::error(error)
ApiResponseError(e) == [success |-> FALSE, data |-> "null", error |-> e]

\* the body a handler of the api returns
ApiHandler(req, outcome) ==
  IF req \in {"health", "status"} THEN ApiResponseSuccess(req)
  ELSE IF outcome = "Ok" THEN ApiResponseSuccess("result")
  ELSE ApiResponseError(outcome)

\* recv_task: the text is decoded and handle_message answers, or the decode
\* error is answered
EnvWsRespond ==
  /\ UNCHANGED notenv
  /\ epc = "call" /\ eiface = "ws"
  /\ envelope' = IF ereq = "undecodable" THEN DecodeErrorResponse
                 ELSE HandleMessage(ereq, eoutcome = "Ok")
  /\ epc' = "done"
  /\ UNCHANGED << eiface, ereq, eoutcome >>

\* handle_ping .. handle_dns, handle_health, handle_status
EnvApiRespond ==
  /\ UNCHANGED notenv
  /\ epc = "call" /\ eiface = "api"
  /\ envelope' = ApiHandler(ereq, eoutcome)
  /\ epc' = "done"
  /\ UNCHANGED << eiface, ereq, eoutcome >>

\* ---------------------------------------------------------------------
\* The resolver handles: Arc<RwLock<DnsService>>

\* WebSocketHandler::new and create_api_router each build their own lock;
\* every session's handler is a clone holding the same "ws" Arc
ResolverLocks == {"ws", "api"}

\* the api requests in flight at once
ApiCalls == {1, 2}

\* the tasks that run a DNS arm: recv_task of each session, and the axum
\* task of each api request
LookupTasks == ({"ws"} \X Sessions) \cup ({"api"} \X ApiCalls)

\* the lock a task's handler holds an Arc of
LockOf(t) == t[1]

\* a Dns message reaches handle_message / a request reaches handle_dns: the
\* config is built and dns_service.read() is called
LookupRequest(t) ==
  /\ UNCHANGED notlock
  /\ lpc[t] = "idle"
  /\ nlookups[t] < MaxLookups
  /\ lpc' = [lpc EXCEPT ![t] = "read"]
  /\ UNCHANGED << rguards, wguards, nlookups >>

\* RwLock::write().await resolves: no guard of any kind is held
DnsLockWrite(t) ==
  /\ UNCHANGED notlock
  /\ lpc[t] = "read"
  /\ wguards[LockOf(t)] = {}
  /\ rguards[LockOf(t)] = {}
  /\ wguards' = [wguards EXCEPT ![LockOf(t)] = {t}]
  /\ lpc' = [lpc EXCEPT ![t] = "query"]
  /\ UNCHANGED << rguards, nlookups >>

\* `self.dns_service.read().await` resolves: no write guard is held
DnsLockRead(t) ==
  /\ UNCHANGED notlock
  /\ lpc[t] = "read"
  /\ wguards[LockOf(t)] = {}
  /\ rguards' = [rguards EXCEPT ![LockOf(t)] = @ \cup {t}]
  /\ lpc' = [lpc EXCEPT ![t] = "query"]
  /\ UNCHANGED << wguards, nlookups >>

\* dns_service.query(config).await returns, the response is built and the
\* guard goes out of scope
LookupReturn(t) ==
  /\ UNCHANGED notlock
  /\ lpc[t] = "query"
  /\ rguards' = [rguards EXCEPT ![LockOf(t)] = @ \ {t}]
  /\ wguards' = [wguards EXCEPT ![LockOf(t)] = @ \ {t}]
  /\ nlookups' = [nlookups EXCEPT ![t] = @ + 1]
  /\ lpc' = [lpc EXCEPT ![t] = "idle"]

\* ---------------------------------------------------------------------
\* Config construction in handle_message and in the api handlers

\* Duration::from_secs / Duration::from_millis, in milliseconds
FromSecs(n) == n * 1000
FromMillis(n) == n

\* Option<u32>
NoneU32 == [some |-> FALSE, val |-> 0]
SomeU32(n) == [some |-> TRUE, val |-> n]
OptionU32(S) == {NoneU32} \cup {SomeU32(n) : n \in S}

\* Option::unwrap_or that always takes the fallback
UnwrapOrFallbackOnly(o, d) == d

\* Option::unwrap_or
UnwrapOr(o, d) == IF o.some THEN o.val ELSE d

\* method.unwrap_or_else(|| "GET".to_string())
MethodOrGet(m) == IF m.some THEN m ELSE Text("GET", TRUE)

\* the host / url strings of the requests
ConfigHosts == {"example.com", "10.0.0.1"}

\* PingRequest / WebSocketMessage::Ping
PingRequests ==
  [kind : {"Ping"}, host : ConfigHosts, count : OptionU32(0 .. MaxCount)]
\* TcpingRequest / WebSocketMessage::Tcping
TcpingRequests ==
  [kind : {"Tcping"}, host : ConfigHosts, port : 1 .. MaxPortNumber,
   count : OptionU32(0 .. MaxCount)]
\* WebsiteRequest / WebSocketMessage::Website
WebsiteRequests ==
  [kind : {"Website"}, url : ConfigHosts, method : Methods \cup {NoText}]
\* TracerouteRequest / WebSocketMessage::Traceroute
TracerouteRequests ==
  [kind : {"Traceroute"}, host : ConfigHosts,
   max_hops : OptionU32(0 .. MaxHops)]

\* PingConfig::default()
PingConfigDefault ==
  [tag |-> "PingConfig", host |-> "", count |-> 4, timeout |-> FromSecs(2),
   packet_size |-> 56]
\* TcpingConfig::default()
TcpingConfigDefault ==
  [tag |-> "TcpingConfig", host |-> "", port |-> 80, count |-> 4,
   timeout |-> FromSecs(3), delay |-> FromMillis(100)]
\* WebsiteTestConfig::default()
WebsiteTestConfigDefault ==
  [tag |-> "WebsiteTestConfig", url |-> "", method |-> Text("GET", TRUE),
   timeout |-> FromSecs(30), follow_redirects |-> TRUE, verify_ssl |-> TRUE,
   headers |-> {<< "User-Agent", "NetworkProbe/1.0" >>}]
\* TracerouteConfig::default()
TracerouteConfigDefault ==
  [tag |-> "TracerouteConfig", host |-> "", max_hops |-> 30,
   timeout |-> FromSecs(3), delay |-> FromMillis(100), packet_size |-> 60]

\* the struct expression of each arm: the named fields, then
\* `..Default::default()`
BuildConfig(r) ==
  CASE r.kind = "Ping" ->
         [PingConfigDefault EXCEPT !.host = r.host,
                                   !.count = UnwrapOr(r.count, 4)]
    [] r.kind = "Tcping" ->
         [TcpingConfigDefault EXCEPT !.host = r.host, !.port = r.port,
                                     !.count = UnwrapOr(r.count, 4)]
    [] r.kind = "Website" ->
         [WebsiteTestConfigDefault EXCEPT !.url = r.url,
                                          !.method = MethodOrGet(r.method)]
    [] r.kind = "Traceroute" ->
         [TracerouteConfigDefault EXCEPT !.host = r.host,
                                         !.max_hops = UnwrapOr(r.max_hops, 30)]

\* handle_message up to the call of the service
WsBuildConfig ==
  /\ UNCHANGED notcfg
  /\ gpc = "request"
  /\ giface = "ws"
  /\ config' = BuildConfig(greq)
  /\ gpc' = "built"
  /\ UNCHANGED << giface, greq >>

\* handle_ping, handle_tcping, handle_website, handle_traceroute up to the
\* call of the service
ApiBuildConfig ==
  /\ UNCHANGED notcfg
  /\ gpc = "request"
  /\ giface = "api"
  /\ config' = BuildConfig(greq)
  /\ gpc' = "built"
  /\ UNCHANGED << giface, greq >>


(***************************************************************************)
(* Specifications.                                                         *)
(***************************************************************************)
\* no traceroute run
TraceIdle ==
  /\ tpc = "idle" /\ max_hops = 0 /\ ttl = 0 /\ hops = << >>
  /\ target = NoAddr /\ target_ip = NoAddr /\ tdelays = 0
  /\ tresult = NoResult /\ tpending = {}

\* no scan_ports run
ScanIdle ==
  /\ spc = "idle" /\ ports = << >> /\ next = 0 /\ results = << >>
  /\ connects = << >> /\ sresult = NoResult

\* no handle_port_scan call
CliIdle == cpc = "idle" /\ range = << >> /\ cresult = NoResult

\* no test_website call
WebIdle ==
  /\ wpc = "idle" /\ wmethod = NoText /\ wurl = "none" /\ wclock = 0
  /\ wrequests = 0 /\ wtransport = "none" /\ wresult = NoResult

\* no DNS request
DnsIdle ==
  /\ dpc = "idle" /\ dentry = "none" /\ qtext = NoText /\ qtype = "none"
  /\ qinner = "none"
  /\ dcalls = << >> /\ drecords = << >> /\ dresult = NoResult

\* no request / response exchange
EnvIdle ==
  /\ epc = "idle" /\ eiface = "none" /\ ereq = "none" /\ eoutcome = "none"
  /\ envelope = NoResult

\* traceroute is called directly, if at all
EntryIdle == tentry = "none" /\ protocol = NoText

\* no handler at its resolver lock
LockIdle ==
  /\ lpc = [t \in LookupTasks |-> "idle"]
  /\ rguards = [l \in ResolverLocks |-> {}]
  /\ wguards = [l \in ResolverLocks |-> {}]
  /\ nlookups = [t \in LookupTasks |-> 0]

\* no config under construction
CfgIdle == gpc = "idle" /\ giface = "none" /\ greq = "none" /\ config = NoResult

SharedIdle == LockIdle /\ CfgIdle

RestIdle == CliIdle /\ WebIdle /\ DnsIdle /\ EnvIdle /\ EntryIdle /\ SharedIdle

\* no Ping / TCP run
ProbeIdle ==
  /\ ppc = "idle" /\ kind = "ping" /\ count = 0 /\ i = 0
  /\ packets_sent = 0 /\ received = 0 /\ rtt_values = << >>
  /\ stats = NoStats /\ result = NoResult /\ failed = 0 /\ sleeps = 0
  /\ lookups = 0 /\ underflow = FALSE /\ pending = {} /\ timeouts = 0

WsInit == WsIdle /\ ProbeIdle /\ TraceIdle /\ ScanIdle /\ RestIdle

\* the sessions of one handler
WsSpec == WsInit /\ [][WsNext]_vars

\* one run of ping or tcping with any configured count
ProbeInit ==
  /\ WsIdle /\ TraceIdle /\ ScanIdle /\ RestIdle
  /\ ppc = "start"
  /\ kind \in {"ping", "tcp"}
  /\ count \in 0 .. MaxCount
  /\ i = 0 /\ packets_sent = 0 /\ received = 0 /\ rtt_values = << >>
  /\ stats = NoStats /\ result = NoResult /\ failed = 0 /\ sleeps = 0
  /\ lookups = 0 /\ underflow = FALSE /\ pending = {} /\ timeouts = 0

ProbeNext ==
  \/ \E ok \in BOOLEAN : PingClientNew(ok)
  \/ \E r \in LookupOutcomes : PingResolve(r)
  \/ PingSend
  \/ \E o \in AttemptOutcomes : PingAttempt(o)
  \/ PingSleep
  \/ PingFinish
  \/ \E r \in LookupOutcomes : PingLookupIp(r)
  \/ TcpingBegin
  \/ TcpingConnect
  \/ \E o \in AttemptOutcomes : TcpingAttempt(o)
  \/ TcpingSleep
  \/ TcpingFinish
  \/ \E r \in LookupOutcomes : TcpingLookupIp(r)

ProbeSpec == ProbeInit /\ [][ProbeNext]_vars


\* one run of traceroute with any configured max_hops
TraceInit ==
  /\ WsIdle /\ ProbeIdle /\ ScanIdle /\ RestIdle
  /\ tpc = "start"
  /\ max_hops \in 0 .. MaxHops
  /\ ttl = 0 /\ hops = << >> /\ target = NoAddr /\ target_ip = NoAddr
  /\ tdelays = 0 /\ tresult = NoResult /\ tpending = {}

TraceNext ==
  \/ \E r \in LookupOutcomes : \E a \in TargetAddrs : TraceResolve(r, a)
  \/ TraceProbeStart
  \/ \E late \in BOOLEAN : TraceProbe(late)
  \/ TraceSleep
  \/ TraceFinish

TraceSpec == TraceInit /\ [][TraceNext]_vars

\* one run of scan_ports with any ports argument
ScanInit ==
  /\ WsIdle /\ ProbeIdle /\ TraceIdle /\ RestIdle
  /\ spc = "loop"
  /\ ports \in PortLists
  /\ next = 0 /\ results = << >> /\ connects = << >> /\ sresult = NoResult

ScanNext ==
  \/ \E o \in ConnectOutcomes : ScanStep(o)
  \/ ScanFinish

ScanSpec == ScanInit /\ [][ScanNext]_vars

\* one port-scan command with any range argument
CliScanInit ==
  /\ WsIdle /\ ProbeIdle /\ TraceIdle /\ ScanIdle
  /\ WebIdle /\ DnsIdle /\ EnvIdle /\ EntryIdle /\ SharedIdle
  /\ cpc = "parse"
  /\ range \in RangeInputs
  /\ cresult = NoResult

CliScanNext ==
  \/ CliParsePortRange
  \/ \E o \in ConnectOutcomes : ScanStep(o)
  \/ ScanFinish
  \/ CliScanReturned

CliScanSpec == CliScanInit /\ [][CliScanNext]_vars

\* one test_website call with any method
WebInit ==
  /\ WsIdle /\ ProbeIdle /\ TraceIdle /\ ScanIdle
  /\ CliIdle /\ DnsIdle /\ EnvIdle /\ EntryIdle /\ SharedIdle
  /\ wpc = "start"
  /\ wmethod \in Methods
  /\ wurl \in {"http", "https"}
  /\ wclock = 0 /\ wrequests = 0 /\ wtransport = "none" /\ wresult = NoResult

WebNext ==
  \/ \E ok \in BOOLEAN : WebBuildClient(ok)
  \/ WebRequest
  \/ WebTick
  \/ \E code \in StatusCodes : \E len \in {NoNumber, SomeNumber(1)} :
       \E hs \in SUBSET {"content-type"} : WebResponse(code, len, hs)
  \/ \E e \in TransportFailures : WebSendError(e)

WebSpec == WebInit /\ [][WebNext]_vars

\* one run of ping, tcping or traceroute
RunInit == ProbeInit \/ TraceInit

RunNext == ProbeNext \/ TraceNext

RunSpec == RunInit /\ [][RunNext]_vars

\* the run on a runtime that polls the task whenever it is woken: every
\* lookup returns, every timer fires, and every awaited attempt completes or
\* hits the timeout that wraps it
RunFairSpec == RunSpec /\ WF_vars(RunNext)

\* one hop discovery requested with a protocol: trace_with_protocol, or the
\* cli's handle_traceroute with its max_hops argument
TraceEntryInit ==
  /\ WsIdle /\ ProbeIdle /\ ScanIdle
  /\ CliIdle /\ WebIdle /\ DnsIdle /\ EnvIdle /\ SharedIdle
  /\ tpc = "entry"
  /\ protocol \in Protocols
  /\ \/ tentry = "trace_with_protocol" /\ max_hops = 0
     \/ tentry = "handle_traceroute" /\ max_hops \in 0 .. MaxHops
  /\ ttl = 0 /\ hops = << >> /\ target = NoAddr /\ target_ip = NoAddr
  /\ tdelays = 0 /\ tresult = NoResult /\ tpending = {}

TraceEntryNext ==
  \/ TraceWithProtocol
  \/ CliHandleTraceroute
  \/ TraceNext

TraceEntrySpec == TraceEntryInit /\ [][TraceEntryNext]_vars

\* one DNS request over the websocket, the api or the cli, or one direct
\* DnsService::query call
DnsInit ==
  /\ WsIdle /\ ProbeIdle /\ TraceIdle /\ ScanIdle
  /\ CliIdle /\ WebIdle /\ EnvIdle /\ EntryIdle /\ SharedIdle
  /\ \/ /\ dentry \in {"ws", "api", "cli"}
        /\ dpc = "request"
        /\ qtext \in QueryTexts
        /\ dentry = "cli" => qtext.some
        /\ qtype = "none"
     \/ /\ dentry = "query"
        /\ dpc = "query"
        /\ qtext = NoText
        /\ qtype \in QueryTypes
  /\ qinner = "none"
  /\ dcalls = << >> /\ drecords = << >> /\ dresult = NoResult

DnsNext ==
  \/ DnsRequest
  \/ DnsFallback
  \/ \E resp \in Responses("lookup_ip") \cup Responses("mx_lookup") :
       DnsLookup(resp)

DnsSpec == DnsInit /\ [][DnsNext]_vars

\* one request on one of the interfaces, with any outcome of its Prober call
EnvelopeInit ==
  /\ WsIdle /\ ProbeIdle /\ TraceIdle /\ ScanIdle
  /\ CliIdle /\ WebIdle /\ DnsIdle /\ EntryIdle /\ SharedIdle
  /\ epc = "call"
  /\ \/ eiface = "ws" /\ ereq \in WsRequests
     \/ eiface = "api" /\ ereq \in ApiRequests
  /\ IF ereq \in ProbeTypes THEN eoutcome \in ProberOutcomes
     ELSE eoutcome = "none"
  /\ envelope = NoResult

EnvelopeNext == EnvWsRespond \/ EnvApiRespond

EnvelopeSpec == EnvelopeInit /\ [][EnvelopeNext]_vars

\* DNS requests of the sessions and of api clients, in any interleaving
LockInit ==
  /\ WsIdle /\ ProbeIdle /\ TraceIdle /\ ScanIdle
  /\ CliIdle /\ WebIdle /\ DnsIdle /\ EnvIdle /\ EntryIdle /\ CfgIdle
  /\ LockIdle

LockNext ==
  \E t \in LookupTasks :
    \/ LookupRequest(t)
    \/ DnsLockRead(t)
    \/ LookupReturn(t)

LockSpec == LockInit /\ [][LockNext]_vars

\* a runtime that polls every woken task, and a resolver whose query ends
\* (with an answer, an error or its own timeout)
LockFairSpec ==
  /\ LockSpec
  /\ \A t \in LookupTasks :
       WF_vars(DnsLockRead(t)) /\ WF_vars(LookupReturn(t))

\* one request with any choice of its optional fields, on either interface
ConfigInit ==
  /\ WsIdle /\ ProbeIdle /\ TraceIdle /\ ScanIdle
  /\ CliIdle /\ WebIdle /\ DnsIdle /\ EnvIdle /\ EntryIdle /\ LockIdle
  /\ gpc = "request"
  /\ giface \in {"ws", "api"}
  /\ \/ greq \in PingRequests
     \/ greq \in TcpingRequests
     \/ greq \in WebsiteRequests
     \/ greq \in TracerouteRequests
  /\ config = NoResult

ConfigNext == WsBuildConfig \/ ApiBuildConfig

ConfigSpec == ConfigInit /\ [][ConfigNext]_vars

\* the sessions under a scheduler that polls every woken task and a
\* transport that answers every write (with Ok or Err)
WsFairSpec ==
  /\ WsSpec
  /\ \A s \in Sessions :
       /\ WF_vars(SendRecvOk(s))
       /\ WF_vars(SendRecvLagged(s))
       /\ WF_vars(SendForward(s) \/ SendFail(s))
       /\ WF_vars(Select(s))
       /\ WF_vars(CancelRecv(s))
       /\ WF_vars(CancelSend(s))

(***************************************************************************)
(* Properties of the session multiplexer.                                  *)
(***************************************************************************)
\* the messages of seq that session s published
Own(seq, s) == SelectSeq(seq, LAMBDA m : m.owner = s)

\* session s is open: its handler waits in select! and both pumps run
Open(s) ==
  /\ hpc[s] = "select"
  /\ recvTask[s] \in Live
  /\ sendTask[s] \in Live

InSeq(seq, s, n) == \E k \in 1 .. Len(seq) : seq[k].owner = s /\ seq[k].seq = n

\* C1: a response to a request of session S reaches only S's transport.
C1_NoCrossDelivery ==
  \A s \in Sessions : \A k \in 1 .. Len(outbox[s]) : outbox[s][k].owner = s

\* C2: while a session stays open, every response published for one of
\* its requests eventually reaches its transport, and no response reaches
\* a transport twice.
C2_DeliveredExactlyOnce ==
  /\ [](\A s \in Sessions : \A j, k \in 1 .. Len(outbox[s]) :
          outbox[s][j] = outbox[s][k] => j = k)
  /\ \A s \in Sessions : \A n \in 1 .. MaxFrames :
       InSeq(chan, s, n) ~> (InSeq(outbox[s], s, n) \/ ~Open(s))

C2_Witness ==
  \E s \in Sessions : Open(s) /\ nsent[s] >= 1 /\ InSeq(outbox[s], s, nsent[s])

StrictlyIncreasing(seq) ==
  \A k \in 1 .. Len(seq) - 1 : seq[k].seq < seq[k + 1].seq

Consecutive(seq) ==
  \A k \in 1 .. Len(seq) - 1 : seq[k + 1].seq = seq[k].seq + 1

C4_DecodeFailureAnswered ==
  [][\A s \in Sessions :
       RecvBadText(s) =>
         /\ nsent'[s] = nsent[s] + 1
         /\ texts'[s] = texts[s] + 1
         /\ recvTask'[s] = "wait"
         /\ hpc'[s] = hpc[s]
         /\ IF Receivers # {}
              THEN /\ Len(chan') = Len(chan) + 1
                   /\ chan'[Len(chan')].owner = s
                   /\ chan'[Len(chan')].success = FALSE
                   /\ chan'[Len(chan')].data = "null"
                   /\ chan'[Len(chan')].error # "null"
              ELSE chan' = chan /\ nfailed'[s] = nfailed[s] + 1]_vars

\* a frame that followed an undecodable one was answered too
C4_Witness ==
  \E s \in Sessions : \E j, k \in 1 .. Len(chan) :
    /\ chan[j].owner = s /\ chan[j].error = "invalid_message_format"
    /\ chan[k].owner = s /\ chan[k].seq = chan[j].seq + 1

\* C5 as stated: once handle_websocket has returned, neither pump of the
\* session is running.
C5_NoPumpRunsAfterReturn ==
  \A s \in Sessions :
    hpc[s] = "returned" => recvTask[s] \notin Live /\ sendTask[s] \notin Live

\* C5 as amended: handle_websocket returns exactly when one pump has ended;
\* by then the other pump has ended or has been aborted, and an aborted
\* pump is eventually gone.
C5_ReturnAbortsOtherPump ==
  /\ [](\A s \in Sessions :
          /\ hpc[s] = "returned" =>
               /\ recvTask[s] = "done" \/ sendTask[s] = "done"
               /\ recvTask[s] \in Live => recvAbort[s]
               /\ sendTask[s] \in Live => sendAbort[s]
          /\ (hpc[s] = "select" /\ (recvTask[s] = "done" \/ sendTask[s] = "done"))
               => ENABLED Select(s)
          /\ hpc[s] = "select" => ~recvAbort[s] /\ ~sendAbort[s])
  /\ \A s \in Sessions :
       (hpc[s] = "returned") ~> (recvTask[s] \notin Live /\ sendTask[s] \notin Live)

C5_Witness ==
  \E s \in Sessions :
    hpc[s] = "returned" /\ sendTask[s] = "done" /\ recvTask[s] = "cancelled"

\* C6: a Prober call in flight when its session is closed keeps running
\* after the inbound pump has been aborted.
C6_ProbeSurvivesAbort ==
  \A s \in Sessions :
    (recvTask[s] = "cancelled" /\ inflight[s] # None) => probe[s] = "running"

\* C7: a publish is never held up by a consumer, and a consumer that has
\* fallen behind the ring, or whose transport rejects a write, loses its
\* outbound pump, after which its handler can tear the session down.
C7_PublishNeverBlocks ==
  /\ [](\A s \in Sessions :
          /\ recvTask[s] = "probing" => ENABLED ProbeComplete(s, TRUE)
          /\ (recvTask[s] = "wait" /\ TextsSeen < MaxFrames)
               => ENABLED RecvBadText(s)
          /\ (sendTask[s] = "done" /\ hpc[s] = "select") => ENABLED Select(s))
  /\ [][\A s \in Sessions :
          /\ (sendTask[s] = "wait" /\ Lagged(s) /\ sendTask'[s] # "wait")
               => (sendTask'[s] \in {"done", "cancelled"} /\ outbox' = outbox)
          /\ (sendTask[s] = "wait" /\ Lagged(s)) => rxpos'[s] = rxpos[s]
          /\ SendFail(s) => sendTask'[s] = "done"]_vars

\* a consumer was overtaken while publishers went on, and was dropped
C7_Witness ==
  \E s \in Sessions :
    Lagged(s) /\ sendTask[s] = "done" /\ hpc[s] = "returned"

(***************************************************************************)
(* Properties of the Ping and TCP runs.                                    *)
(***************************************************************************)
Returned == ppc = "done"
ReturnedOk == Returned /\ result.tag = "Ok"
\* the attempt loop ran to its end and no attempt succeeded
AllAttemptsFailed == Returned /\ count > 0 /\ failed = count /\ received = 0

\* the counts a success result reports
ResultSent == IF kind = "ping" THEN result.packets_sent ELSE result.attempts
ResultSucceeded ==
  IF kind = "ping" THEN result.packets_received ELSE result.successful_attempts

AllFailedVariant == IF kind = "ping" THEN "Ping" ELSE "Tcp"

\* C8 as stated: a run with count > 0 in which no attempt succeeded returns
\* the all-attempts-failed variant carrying sent = count and succeeded = 0,
\* never a success result.
C8_AllFailedCarriesCounts ==
  AllAttemptsFailed =>
    /\ result.tag = "Err"
    /\ result.variant = AllFailedVariant
    /\ {"sent", "succeeded"} \subseteq DOMAIN result
    /\ result.sent = count
    /\ result.succeeded = 0

\* C8 as amended: such a run returns the Ping / Tcp error, which carries a
\* message and no counts, after count attempts of which none succeeded; a
\* run without a successful attempt never returns a success result.
C8_AllFailedIsError ==
  /\ AllAttemptsFailed =>
       /\ result.tag = "Err"
       /\ result.variant = AllFailedVariant
       /\ DOMAIN result = {"tag", "variant", "msg"}
       /\ i = count
  /\ (Returned /\ received = 0) => result.tag = "Err"
  /\ ReturnedOk =>
       /\ IsFinite(result.min_rtt)
       /\ IsFinite(result.max_rtt)
       /\ IsFinite(result.avg_rtt)

C8_Witness == AllAttemptsFailed /\ count >= 2

\* C9: a success result reports sent = count, sent = succeeded + failed,
\* 0 <= succeeded <= sent, loss = (sent - succeeded) / sent * 100 and
\* 0 <= loss <= 100.
C9_SuccessCounts ==
  ReturnedOk =>
    /\ ResultSent = count
    /\ ResultSent = ResultSucceeded + failed
    /\ 0 <= ResultSucceeded /\ ResultSucceeded <= ResultSent
    /\ result.packet_loss.den > 0
    /\ result.packet_loss.num * ResultSent
         = (ResultSent - ResultSucceeded) * 100 * result.packet_loss.den
    /\ F64Le(F64(0), result.packet_loss)
    /\ F64Le(result.packet_loss, F64(100))

C9_Witness == ReturnedOk /\ failed >= 1 /\ ResultSucceeded >= 2

Range(seq) == {seq[k] : k \in 1 .. Len(seq)}
SetMin(S) == CHOOSE x \in S : \A y \in S : x <= y
SetMax(S) == CHOOSE x \in S : \A y \in S : y <= x

LoopStarted ==
  \/ ppc \in {"loop", "await", "sleep", "lookup_ip"}
  \/ Returned /\ (stats # NoStats \/ result.variant \in {"Ping", "Tcp"})
LoopDone == LoopStarted /\ ppc \in {"lookup_ip", "done"}
Attempted == received + failed

\* C11: once the attempt loop has started it makes exactly count attempts,
\* each recording one outcome; an attempt that errors or times out counts
\* one failed attempt, adds no latency sample and does not end the run.
C11_OneOutcomePerAttempt ==
  /\ [](LoopStarted =>
          /\ Len(rtt_values) = received
          /\ Attempted <= count
          /\ ppc \in {"loop", "await"} => Attempted = i
          /\ ppc = "sleep" => Attempted = i + 1
          /\ kind = "ping" =>
               packets_sent = Attempted + (IF ppc = "await" THEN 1 ELSE 0))
  /\ [](LoopDone => Attempted = count)
  /\ [][ppc = "await" =>
          /\ received' + failed' = Attempted + 1
          /\ received' >= received /\ failed' >= failed
          /\ failed' # failed => UNCHANGED << received, rtt_values >>
          /\ result' = result
          /\ ppc' \in {"loop", "sleep"}]_vars

C11_Witness == ppc = "lookup_ip" /\ failed >= 2 /\ received >= 1

\* C12: a run of count attempts sleeps exactly count - 1 times: between
\* consecutive attempts, never after the last one.
C12_SleepsBetweenAttempts ==
  LoopDone => sleeps = (IF count = 0 THEN 0 ELSE count - 1)

\* C13: the target is resolved exactly once per run, before the first
\* attempt, and a resolution without an address ends the run with the Dns
\* error before any attempt is made.
C13_ResolvedOnceBeforeAttempts ==
  /\ lookups <= 1
  /\ Attempted > 0 => lookups = 1
  /\ (Returned /\ result.tag = "Err" /\ result.variant = "Dns")
       => Attempted = 0

\* C14: a run in which at least one attempt succeeded returns a success
\* result for the configured host (and port) with succeeded >= 1.
C14_SuccessWhenAnyAttemptSucceeded ==
  (Returned /\ received >= 1) =>
    /\ result.tag = "Ok"
    /\ result.host = ConfigHost
    /\ kind = "tcp" => result.port = ConfigPort
    /\ ResultSucceeded >= 1

\* C15: for every count, 0 included, the statistics are computed without a
\* division by zero and without a u32 underflow; a run with count = 0 makes
\* no attempt and returns the no-successful-attempts error, no statistics.
C15_NoDivisionByZeroNoUnderflow ==
  /\ ~underflow
  /\ stats # NoStats =>
       /\ stats.packet_loss.den > 0
       /\ stats.avg_rtt.den > 0
       /\ stats.min_rtt.den > 0
       /\ stats.max_rtt.den > 0
  /\ count = 0 =>
       /\ Attempted = 0 /\ packets_sent = 0 /\ sleeps = 0
       /\ stats = NoStats
       /\ Returned => result.tag = "Err"
       /\ LoopDone => (Returned /\ result.variant = AllFailedVariant)

C15_Witness ==
  Returned /\ count = 0 /\ kind = "tcp" /\ result.tag = "Err"
    /\ result.variant = "Tcp"

(***************************************************************************)
(* Properties of the traceroute walk.                                      *)
(***************************************************************************)
TraceReturnedOk == tpc = "done" /\ tresult.tag = "Ok"
\* the hop answered from the IP address the target resolved to
HopAtTarget(h) == h.ip.some /\ h.ip.text.ip = target.ip

\* C16: the hop indices are 1, 2, .., k with k <= max_hops, no hop is
\* recorded after a hop whose address is the target's, and a walk that
\* ended did so at such a hop or at the budget.
C16_HopIndicesAndStopAtTarget ==
  /\ Len(hops) <= max_hops
  /\ \A j \in 1 .. Len(hops) : hops[j].hop_number = j
  /\ \A j \in 1 .. Len(hops) - 1 : ~HopAtTarget(hops[j])
  /\ TraceReturnedOk =>
       \/ Len(hops) = max_hops
       \/ Len(hops) > 0 /\ HopAtTarget(hops[Len(hops)])

\* C17: a walk in which no hop up to max_hops answered from the target's
\* address returns a success result with the max_hops hops it recorded and
\* the configured max_hops.
C17_BudgetExhaustedIsSuccess ==
  (tpc = "done" /\ target # NoAddr
     /\ \A j \in 1 .. Len(hops) : ~HopAtTarget(hops[j])) =>
    /\ tresult.tag = "Ok"
    /\ tresult.hops = hops
    /\ Len(tresult.hops) = max_hops
    /\ tresult.max_hops = max_hops
    /\ tresult.host = ConfigHost

C17_Witness ==
  /\ TraceReturnedOk
  /\ max_hops >= 2
  /\ \A j \in 1 .. Len(hops) : ~HopAtTarget(hops[j])
  /\ \E j \in 1 .. Len(hops) : hops[j].success

\* C18: a hop probe without a response is recorded as an unsuccessful hop
\* with its index, no address and no RTT; the walk is not aborted and goes
\* on with the next index.
C18_UnansweredHopDoesNotAbort ==
  /\ [](\A j \in 1 .. Len(hops) :
          ~hops[j].success =>
            /\ hops[j].hop_number = j
            /\ ~hops[j].ip.some
            /\ hops[j].rtt = "none")
  /\ [][tpc = "await" =>
          /\ Len(hops') = Len(hops) + 1
          /\ hops'[Len(hops')].hop_number = ttl
          /\ tresult' = tresult
          /\ ~hops'[Len(hops')].success => tpc' = "sleep"]_vars
  /\ [][tpc = "sleep" => (ttl' = ttl + 1 /\ tpc' = "probe")]_vars

C18_Witness ==
  /\ TraceReturnedOk
  /\ Len(hops) >= 2
  /\ ~hops[1].success
  /\ hops[2].success

\* C19: a walk that probed k hops took exactly k - 1 delays.
C19_DelaysBetweenHops ==
  (TraceReturnedOk /\ Len(hops) >= 1) => tdelays = Len(hops) - 1

(***************************************************************************)
(* Properties of the port scanner.                                         *)
(***************************************************************************)
\* C20: scan_ports connects at most once per requested port, in input
\* order, and returns one (port, open) entry per requested port in input
\* order, nothing added, dropped or repeated; a connect that fails or times
\* out gives closed, never an error.
C20_ScanOneEntryPerPortInOrder ==
  /\ Len(connects) <= Len(ports)
  /\ Len(results) = Len(connects)
  /\ \A k \in 1 .. Len(connects) :
       /\ connects[k].port = ports[k]
       /\ results[k] = << ports[k], connects[k].outcome = "connected" >>
  /\ spc = "done" =>
       /\ sresult.tag = "Ok"
       /\ Len(sresult.value) = Len(ports)
       /\ \A k \in 1 .. Len(ports) :
            /\ sresult.value[k][1] = ports[k]
            /\ sresult.value[k][2] = (connects[k].outcome = "connected")

C20_Witness ==
  /\ spc = "done"
  /\ sresult.tag = "Ok"
  /\ Len(ports) = MaxPorts
  /\ \E j, k \in 1 .. Len(ports) :
       /\ connects[j].outcome = "timeout" /\ ~sresult.value[j][2]
       /\ connects[k].outcome = "connected" /\ sresult.value[k][2]

(***************************************************************************)
(* Properties of the port range argument.                                  *)
(***************************************************************************)
IsPort(piece) == piece.kind = "digits" /\ piece.value <= U16Max
SinglePort == Len(range) = 1 /\ IsPort(range[1])
PortSpan ==
  /\ Len(range) = 2 /\ IsPort(range[1]) /\ IsPort(range[2])
  /\ range[1].value <= range[2].value
Parsed == cpc \in {"scan", "done"}

\* C21: a single integer gives that one port; start-end with start <= end
\* gives start..end ascending; any other range argument is rejected with an
\* error and no connection is attempted.
C21_PortRangeParsedOrRejected ==
  /\ (Parsed /\ SinglePort) => ports = << range[1].value >>
  /\ (Parsed /\ PortSpan) =>
       /\ Len(ports) = range[2].value - range[1].value + 1
       /\ ports[1] = range[1].value
       /\ ports[Len(ports)] = range[2].value
       /\ \A k \in 1 .. Len(ports) - 1 : ports[k + 1] = ports[k] + 1
  /\ (Parsed /\ (SinglePort \/ PortSpan)) => cpc = "scan" \/ cresult.tag = "Ok"
  /\ ~(SinglePort \/ PortSpan) =>
       /\ connects = << >> /\ spc = "idle" /\ ports = << >>
       /\ cpc \in {"parse", "done"}
       /\ cpc = "done" => cresult.tag = "Err"

\* an inverted range was rejected
C21_Witness ==
  /\ cpc = "done" /\ cresult.tag = "Err" /\ connects = << >>
  /\ Len(range) = 2 /\ IsPort(range[1]) /\ IsPort(range[2])
  /\ range[1].value > range[2].value

(***************************************************************************)
(* Properties of the HTTP prober.                                          *)
(***************************************************************************)
WebReturned == wpc = "done"
TransportFailed == wtransport \in TransportFailures
\* the result of a run whose request failed in transport carries no metrics
NoMetricsButTime ==
  /\ wresult.tag = "Ok"
  /\ ~wresult.success
  /\ wresult.error_message \in TransportFailures
  /\ ~wresult.status_code.some
  /\ ~wresult.content_length.some
  /\ wresult.headers = {}
  /\ ~wresult.ssl_info

\* C22 as stated: one request per call; the only error return is the
\* unsupported method, before any request; a transport failure gives an
\* unsuccessful result with an error text, no status code, no content
\* length, no headers and response time zero.
C22_OnlyMethodErrorZeroMetrics ==
  /\ wrequests <= 1
  /\ (WebReturned /\ wresult.tag = "Err") =>
       /\ wresult.variant = "InvalidInput"
       /\ ToUppercase(wmethod) \notin SupportedMethods
       /\ wrequests = 0
  /\ (WebReturned /\ TransportFailed) =>
       /\ NoMetricsButTime
       /\ wresult.response_time = 0

\* C22 as amended: one request per call; an error is returned only before
\* any request is sent, for an unsupported method or for an HTTP client that
\* cannot be built; a transport failure gives an unsuccessful result with an
\* error text, no status code, no content length, no headers, and the time
\* that passed until the failure as response time.
C22_ErrorsBeforeRequestElapsedTime ==
  /\ wrequests <= 1
  /\ (WebReturned /\ wresult.tag = "Err") =>
       /\ wrequests = 0
       /\ \/ wresult.variant = "InvalidInput"
               /\ ToUppercase(wmethod) \notin SupportedMethods
          \/ wresult.variant = "Http"
  /\ (WebReturned /\ ToUppercase(wmethod) \notin SupportedMethods) =>
       wresult.tag = "Err" /\ wrequests = 0
  /\ (WebReturned /\ TransportFailed) =>
       /\ NoMetricsButTime
       /\ wresult.response_time = wclock
  /\ (WebReturned /\ wtransport = "response") =>
       /\ wresult.tag = "Ok"
       /\ wresult.status_code.some
       /\ wresult.error_message = "none"
       /\ wresult.success = IsSuccess(wresult.status_code.value)

C22_Witness ==
  /\ WebReturned /\ wtransport = "timeout" /\ wclock > 0
  /\ wresult.tag = "Ok" /\ ~wresult.success /\ wrequests = 1

(***************************************************************************)
(* Properties of the DNS prober.                                           *)
(***************************************************************************)
DnsReturned ==
  dpc = "done" /\ ~(dresult.tag = "Err" /\ dresult.variant = "Exit")
DnsReturnedOk == dpc = "done" /\ dresult.tag = "Ok"
\* the values of the answers of one family, in answer order
ValuesOf(list, fam) ==
  LET sel == SelectSeq(list, LAMBDA a : a.family = fam)
  IN  [k \in 1 .. Len(sel) |-> sel[k].value]
RecordValues(recs) == [k \in 1 .. Len(recs) |-> recs[k].value]
RecordTypes(recs) == {recs[k].record_type : k \in 1 .. Len(recs)}

\* C23: a websocket or api DNS request whose query_type names none of the
\* nine types is answered with an error and causes no resolver lookup.
C23_UnknownQueryTypeRejected ==
  (dentry \in {"ws", "api"} /\ qtext.some /\ qtext.letters \notin QueryTypes) =>
    /\ dcalls = << >>
    /\ dpc = "done" => dresult.tag = "Err"

\* C25: every query makes exactly one resolver call, chosen by its type: the
\* address lookup for A and AAAA (keeping their own family) and for CNAME,
\* SOA, PTR, ALL (answered as A), the type's own lookup for MX, TXT, NS; a
\* failing lookup gives the Dns error.
C25_OneResolverCallByType ==
  /\ Len(dcalls) <= 1
  /\ dpc \in {"request", "query", "inner"} => dcalls = << >>
  /\ DnsReturned =>
       /\ Len(dcalls) = 1
       /\ qtype \in {"A", "AAAA", "CNAME", "SOA", "PTR", "ALL"}
            => dcalls[1].call = "lookup_ip"
       /\ qtype = "MX" => dcalls[1].call = "mx_lookup"
       /\ qtype = "TXT" => dcalls[1].call = "txt_lookup"
       /\ qtype = "NS" => dcalls[1].call = "ns_lookup"
       /\ dcalls[1].ok <=> dresult.tag = "Ok"
       /\ ~dcalls[1].ok => dresult.variant = "Dns"
  /\ DnsReturnedOk =>
       /\ dresult.records = drecords
       /\ qtype \in {"A", "CNAME", "SOA", "PTR", "ALL"} =>
            /\ RecordTypes(drecords) \subseteq {"A"}
            /\ RecordValues(drecords) = ValuesOf(dcalls[1].list, "v4")
       /\ qtype = "AAAA" =>
            /\ RecordTypes(drecords) \subseteq {"AAAA"}
            /\ RecordValues(drecords) = ValuesOf(dcalls[1].list, "v6")
       /\ qtype \in {"MX", "TXT", "NS"} =>
            /\ RecordTypes(drecords) = {qtype}
            /\ RecordValues(drecords) = ValuesOf(dcalls[1].list, "none")

\* an AAAA query kept the one IPv6 address of a mixed answer
C25_Witness ==
  /\ DnsReturnedOk /\ qtype = "AAAA"
  /\ Len(dcalls[1].list) = 2 /\ Len(drecords) = 1

\* C26: a successful query of type A yields a non-empty list of records,
\* all of type "A", in answer order with duplicates kept.
C26_ARecordsNonEmpty ==
  (DnsReturnedOk /\ qtype = "A") =>
    /\ drecords # << >>
    /\ RecordTypes(drecords) = {"A"}
    /\ RecordValues(drecords) = ValuesOf(dcalls[1].list, "v4")

(***************************************************************************)
(* Properties of the entry points of hop discovery.                        *)
(***************************************************************************)
\* C24: a hop discovery requested with a protocol other than icmp, udp or
\* tcp (in any case) is rejected with InvalidInput before any resolution or
\* hop probe, through trace_with_protocol and through the cli alike.
C24_UnknownProtocolRejected ==
  (tentry # "none" /\ ToLowercase(protocol) \notin SupportedProtocols) =>
    /\ tpc \in {"entry", "done"}
    /\ target = NoAddr /\ hops = << >>
    /\ tpc = "done" =>
         tresult.tag = "Err" /\ tresult.variant = "InvalidInput"

(***************************************************************************)
(* Properties of Subscribe and Unsubscribe.                                *)
(***************************************************************************)
\* the messages rx of session r has still to yield
Pending(r) ==
  IF r \in Receivers THEN SubSeq(chan, rxpos[r] + 1, Len(chan)) ELSE << >>

\* C27: a Subscribe or Unsubscribe request of a session is acknowledged by
\* one success envelope and changes nothing else: the state of the pumps
\* stays as it is and no other session has anything more, or anything less,
\* to receive than before.
C27_AckIsNoOp ==
  [][\A s \in Sessions : \A t \in AckTypes :
       RecvAckFrame(s, t) =>
         /\ nsent'[s] = nsent[s] + 1
         /\ HandleMessage(t, TRUE).success
         /\ recvTask' = recvTask /\ sendTask' = sendTask
         /\ \A r \in Sessions \ {s} :
              Pending(r)' = Pending(r) /\ Lagged(r)' = Lagged(r)]_vars

(***************************************************************************)
(* Properties of the attempts of one run.                                  *)
(***************************************************************************)
\* C28: in a run of ping, tcping or traceroute at most one attempt or hop
\* probe is in flight at any moment, and an attempt starts only when every
\* earlier attempt of the run has completed, failed or timed out.
C28_AttemptsSequential ==
  /\ [](/\ Cardinality(pending) <= 1
        /\ Cardinality(tpending) <= 1
        /\ pending # {} <=> ppc = "await"
        /\ tpending # {} <=> tpc = "await"
        /\ ppc = "await" => pending = {i} /\ Attempted = i
        /\ tpc = "await" => tpending = {ttl} /\ Len(hops) = ttl - 1)
  /\ [][/\ (pending' \ pending # {}) =>
             pending = {} /\ pending' = {Attempted}
        /\ (tpending' \ tpending # {}) =>
             tpending = {} /\ tpending' = {Len(hops) + 1}]_vars

\* the second attempt is in flight, the first one has completed
C28_Witness == ppc = "await" /\ pending = {1} /\ Attempted = 1

\* C29: on a runtime where every awaited step completes, every run of ping,
\* tcping and traceroute returns, after at most count attempts or max_hops
\* hops; a timeout never ends a run early, and a run all of whose attempts
\* timed out returns the all-attempts-lost error of its service (for a walk:
\* Ok with max_hops unsuccessful hops).
C29_TimeoutsAreAttemptScoped ==
  /\ <>(ppc \in {"idle", "done"} /\ tpc \in {"idle", "done"})
  /\ [](Attempted <= count /\ Len(hops) <= max_hops)
  /\ []((ppc = "done" /\ timeouts >= 1) =>
          /\ Attempted = count
          /\ result.tag = "Err" => result.variant # "Timeout")
  /\ []((ppc = "done" /\ count >= 1 /\ timeouts = count) =>
          /\ result.tag = "Err"
          /\ result.variant = (IF kind = "ping" THEN "Ping" ELSE "Tcp"))
  /\ []((tpc = "done" /\ hops # << >>
           /\ \A j \in 1 .. Len(hops) : ~hops[j].success) =>
          /\ tresult.tag = "Ok"
          /\ Len(hops) = max_hops)

\* a tcping run of two or more attempts, all timed out, has returned
C29_Witness ==
  ppc = "done" /\ kind = "tcp" /\ count >= 2 /\ timeouts = count

(***************************************************************************)
(* Properties of the response bodies.                                      *)
(***************************************************************************)
\* C30: in every response body of the websocket and of the api, success is
\* true exactly when data is not null and exactly when error is null; a
\* request whose Prober call fails gets success = false.
C30_SuccessIffDataIffNoError ==
  epc = "done" =>
    /\ envelope.success <=> envelope.data # "null"
    /\ envelope.success <=> envelope.error = "null"
    /\ eoutcome \in NetworkErrors => ~envelope.success
    /\ eoutcome = "Ok" => envelope.success

\* the api answered a failed Prober call
C30_Witness ==
  /\ epc = "done" /\ eiface = "api" /\ eoutcome \in NetworkErrors
  /\ ~envelope.success /\ envelope.error # "null"

\* C39: the query_type a DNS result reports is the query type of the
\* configuration the query was called with, for each of the nine types.
C39_ResultReportsRequestedType ==
  DnsReturnedOk => dresult.query_type = qtype

\* C40: in every WebsiteTestResult the status code is present exactly when
\* the error message is absent; success implies a status code in 200..299;
\* a response with another status is returned as a result with success =
\* false, its status code and no error message.
C40_StatusXorErrorMessage ==
  /\ (wpc = "done" /\ wresult.tag = "Ok") =>
       /\ wresult.status_code.some <=> wresult.error_message = "none"
       /\ wresult.success =>
            /\ wresult.status_code.some
            /\ wresult.status_code.value \in 200 .. 299
  /\ (wpc = "done" /\ wtransport = "response") =>
       /\ wresult.tag = "Ok"
       /\ wresult.status_code.some
       /\ wresult.error_message = "none"
       /\ wresult.status_code.value \notin 200 .. 299 => ~wresult.success

\* a 404 response has been returned as a result
C40_Witness ==
  /\ wpc = "done" /\ wtransport = "response" /\ wresult.tag = "Ok"
  /\ wresult.status_code = SomeNumber(404) /\ ~wresult.success

(***************************************************************************)
(* Properties of the walk as the code performs it.                         *)
(***************************************************************************)
\* C36: whenever the host resolves, the walk returns exactly max_hops hops:
\* the break is never taken, since no hop's address text equals target_ip.
C36_AlwaysMaxHops ==
  /\ tpc # "break"
  /\ \A j \in 1 .. Len(hops) : ~IsTarget(hops[j])
  /\ (tpc = "done" /\ target # NoAddr) =>
       /\ tresult.tag = "Ok"
       /\ Len(tresult.hops) = max_hops

\* the walk went on past a hop that answered from the target's IP address
C36_Witness ==
  /\ TraceReturnedOk
  /\ \E j \in 1 .. Len(hops) - 1 : HopAtTarget(hops[j])

\* C37: in every recorded hop success, address, RTT and hostname are all
\* present or all absent, and hop_number is the ttl the hop was probed at.
C37_HopFieldsAgree ==
  /\ [](\A j \in 1 .. Len(hops) :
          /\ hops[j].success <=> hops[j].ip.some
          /\ hops[j].success <=> hops[j].rtt # "none"
          /\ hops[j].success <=> hops[j].hostname # "none"
          /\ hops[j].hop_number = j)
  /\ [][tpc = "await" =>
          /\ Len(hops') = Len(hops) + 1
          /\ hops'[Len(hops')].hop_number = ttl]_vars

\* an answered and an unanswered hop have been recorded
C37_Witness ==
  /\ Len(hops) >= 2
  /\ \E j \in 1 .. Len(hops) : hops[j].success
  /\ \E j \in 1 .. Len(hops) : ~hops[j].success

(***************************************************************************)
(* Properties of the results as the code builds them.                      *)
(***************************************************************************)
\* C38: every TcpingResult that is returned has success = true, one or more
\* successful attempts, attempts = config.count and a packet loss strictly
\* below 100.
C38_TcpingResultIsSuccess ==
  (ReturnedOk /\ kind = "tcp") =>
    /\ result.success
    /\ result.successful_attempts >= 1
    /\ result.attempts = count
    /\ result.packet_loss.den > 0
    /\ result.packet_loss.num < 100 * result.packet_loss.den

\* a tcping run with failed and successful attempts has returned its result
C38_Witness ==
  /\ ReturnedOk /\ kind = "tcp" /\ failed >= 1
  /\ result.successful_attempts >= 1

(***************************************************************************)
(* Properties of the sessions as the code runs them.                       *)
(***************************************************************************)
\* C33: the outbound pump of a session ends only because of the session's
\* own connection: by a failed write to its transport, by the abort that
\* follows the end of its own inbound pump, or by being overrun by
\* responses to its own requests; never by the traffic of other sessions.
C33_OtherTrafficNeverEndsPump ==
  [][\A s \in Sessions :
       (sendTask[s] \in Live /\ sendTask'[s] \notin Live) =>
          \/ sendTask[s] = "sending" /\ sendTask'[s] = "done"
          \/ sendTask'[s] = "cancelled"
          \/ \A k \in rxpos[s] + 1 .. Len(chan) : chan[k].owner = s]_vars

\* C34: a session has at most one probe in flight: its inbound pump takes
\* no frame (text or close) while a handle_message call is awaited, and
\* every earlier frame has been answered when the next one is taken; probes
\* of different sessions run side by side.
C34_OneProbePerSession ==
  /\ [](\A s \in Sessions :
          /\ probe[s] = "running" <=> recvTask[s] = "probing"
          /\ probe[s] = "running" => inflight[s] \in ProbeTypes)
  /\ [][\A s \in Sessions :
          /\ texts'[s] # texts[s] =>
               /\ recvTask[s] = "wait" /\ probe[s] # "running"
               /\ texts[s] = nsent[s]
          /\ recvTask[s] = "probing" =>
               recvTask'[s] \in {"probing", "wait", "cancelled"}
          /\ (recvTask[s] = "probing" /\ recvTask'[s] = "wait") =>
               nsent'[s] = nsent[s] + 1]_vars

\* the probes of two sessions are running at the same time
C34_Witness == \A s \in Sessions : probe[s] = "running"

\* C35: a response that cannot be published because the channel has no
\* receiver is dropped and counted, nothing else: the inbound pump stays in
\* its loop, ready for the next frame.
C35_FailedPublishKeepsPump ==
  [][\A s \in Sessions :
       nfailed'[s] # nfailed[s] =>
         /\ nfailed'[s] = nfailed[s] + 1
         /\ nsent'[s] = nsent[s] + 1
         /\ chan' = chan
         /\ recvTask'[s] = "wait"
         /\ hpc' = hpc]_vars

\* a publish failed and the pump waits for the next frame
C35_Witness ==
  \E s \in Sessions : nfailed[s] >= 1 /\ recvTask[s] = "wait"

\* C31: DNS lookups of different sessions and of the api all make progress
\* on the resolver handle: the lock is only ever held for shared read
\* access, a task at read() is never kept waiting by another task's lookup,
\* it obtains its guard, and a task holding a guard can always return.
C31_LookupsNeverWait ==
  /\ [](\A t \in LookupTasks :
          /\ wguards[LockOf(t)] = {}
          /\ lpc[t] = "read" => ENABLED DnsLockRead(t)
          /\ lpc[t] = "query" => t \in rguards[LockOf(t)] /\ ENABLED LookupReturn(t))
  /\ \A t \in LookupTasks : (lpc[t] = "read") ~> (lpc[t] = "query")

\* both sessions and an api request hold their read guards at the same time
\* while another api request is at read()
C31_Witness ==
  /\ rguards["ws"] = {"ws"} \X Sessions
  /\ << "api", 1 >> \in rguards["api"]
  /\ lpc[<< "api", 2 >>] = "read"

\* C32: a request without its optional fields runs with count 4, ping
\* timeout 2 s, tcp timeout 3 s, http timeout 30 s, hop budget 30, delay
\* 100 ms and method GET; a supplied field replaces only itself.
C32_DocumentedDefaults ==
  gpc = "built" =>
    /\ greq.kind = "Ping" =>
         /\ config.tag = "PingConfig"
         /\ config.host = greq.host
         /\ config.count = (IF greq.count.some THEN greq.count.val ELSE 4)
         /\ config.timeout = 2000
         /\ config.packet_size = 56
    /\ greq.kind = "Tcping" =>
         /\ config.tag = "TcpingConfig"
         /\ config.host = greq.host
         /\ config.port = greq.port
         /\ config.count = (IF greq.count.some THEN greq.count.val ELSE 4)
         /\ config.timeout = 3000
         /\ config.delay = 100
    /\ greq.kind = "Website" =>
         /\ config.tag = "WebsiteTestConfig"
         /\ config.url = greq.url
         /\ config.method =
              (IF greq.method.some THEN greq.method
               ELSE [some |-> TRUE, letters |-> "GET", upper |-> TRUE])
         /\ config.timeout = 30000
         /\ config.follow_redirects /\ config.verify_ssl
    /\ greq.kind = "Traceroute" =>
         /\ config.tag = "TracerouteConfig"
         /\ config.host = greq.host
         /\ config.max_hops =
              (IF greq.max_hops.some THEN greq.max_hops.val ELSE 30)
         /\ config.timeout = 3000
         /\ config.delay = 100
         /\ config.packet_size = 60

\* a TCP request that supplies its count and nothing else
C32_Witness ==
  /\ gpc = "built"
  /\ greq.kind = "Tcping"
  /\ greq.count = SomeU32(MaxCount)
  /\ config.count = MaxCount
  /\ config.timeout = 3000

=============================================================================
